---- MODULE Spec2Model ----
(***************************************************************************)
(* State-machine model of the user service (services/user_service.go),     *)
(* its repository (repositories/user_repository.go, GORM over a relational *)
(* store with a primary key and a unique index on email) and its Redis     *)
(* cache.  Every service call is a process that advances one store or      *)
(* cache round trip per step, so that calls can interleave exactly where   *)
(* the Go code can be preempted between two external calls.                *)
(*                                                                         *)
(* Abstractions: timestamps (created_at, updated_at) are left out of the   *)
(* User record; a bcrypt hash is the pair <<"$2a$", key bytes>> (no salt); *)
(* Go's int is IntBits wide instead of 64 bits wide; the clock counts      *)
(* hours; a signed token is the record of its claims, its algorithm and    *)
(* the key that signed it.                                                 *)
(*                                                                         *)
(* The specifications share the actions: Spec (one caller of the service   *)
(* interface, store and cache may fail), SpecConc and SpecRace (two        *)
(* callers interleaving, no failures), SpecSeq (one caller, no failures),  *)
(* SpecTTL (entries age), SpecHTTP, SpecSession and SpecHandlers (a client *)
(* of the router of routes.Setup, with the middlewares and the handlers    *)
(* in front of the service, and a clock), SpecNormalize and SpecHash       *)
(* (functions called on their own) and SpecLog (a redislog.Logger).        *)
(***************************************************************************)
EXTENDS Integers, Sequences, FiniteSets, TLC

\* ---------------------------------------------------------------- bounds
MaxId   == 2      \* the store hands out the identifiers 1..MaxId
LogMax  == 2      \* length the log list is trimmed to
IntBits == 16     \* width of the modelled machine integer
MaxTicks == 3     \* the clock advances at most this many times
MaxPanics == 1    \* requests to the panicking route that are served
MaxNameLen == 4   \* bytes of a text handed to NormalizeName on its own
MaxSuffix == 2    \* bytes that follow the padding of a password
MaxLogs == 3      \* calls made on a logger of its own

\* ------------------------------------------------------ program constants
userCacheTTL == 10     \* minutes
MaxPasswordBytes == 72 \* bcrypt reads this many bytes of its key
MaxLimit     == 100
DefaultLimit == 10
JWTExpires   == 72     \* hours; the token lifetime handed to Login

\* ------------------------------------------------------------ input sets
AllProcs  == {1, 2}
Ids       == 1..MaxId                  \* an id not yet assigned, or deleted, has no row
Emails    == {"a@b.c", "x@y.z"}
Pad(n)    == [i \in 1..n |-> "p"]
Pw1       == <<"p", "w", "1">>
Pw2       == <<"p", "w", "2">>
TooLong   == Pad(MaxPasswordBytes + 1)
Passwords == {Pw1, TooLong}
LoginPasswords == {Pw1, Pw2}
NameInputs == { <<" ", "a", "H", " ">>, <<"b">> }
Secrets   == {"sec"}

MaxInt == 2^(IntBits - 1) - 1
MinInt == 0 - 2^(IntBits - 1)
Pages  == {0 - 1, 0, 1, 2, MaxInt}
Limits == {0 - 1, 0, 1, MaxLimit, MaxLimit + 1, 1000}

\* ------------------------------------------------------------ error texts
ErrNone          == ""
ErrEmailExists   == "email already exists"
ErrInvalidCreds  == "invalid credentials"
ErrRecordNotFound == "record not found"
ErrDB            == "db error"
ErrDuplicate     == "duplicate entry"
ErrTooLong       == "bcrypt: password length exceeds 72 bytes"

\* ------------------------------------------------------------ value shapes
NoHash   == <<>>
ZeroUser == [ID |-> 0, Name |-> <<>>, Email |-> "", Password |-> NoHash]
NoJSON   == [kind |-> "none", id |-> 0, name |-> <<>>, email |-> ""]
Garbage  == [kind |-> "garbage", id |-> 0, name |-> <<>>, email |-> ""]
NoEntry  == [present |-> FALSE, val |-> NoJSON, ttl |-> 0]
\* a JSON value of the "sub" claim: a number, a string, or no claim at all
NoSub     == [kind |-> "absent", num |-> 0, str |-> ""]
NumSub(n) == [kind |-> "number", num |-> n, str |-> ""]
StrSub(t) == [kind |-> "string", num |-> 0, str |-> t]
NoToken  == [sub |-> NoSub, eml |-> "", key |-> "", alg |-> "", hasExp |-> FALSE,
             exp |-> 0, iat |-> 0]
NoPaged  == [Items |-> <<>>, Total |-> 0, Page |-> 0, Limit |-> 0]
NoPure   == [fn |-> "none"]
NoEntryLogged == [level |-> "", seq |-> 0]
NoLog    == [client |-> FALSE, max |-> 0, retention |-> FALSE, list |-> <<>>, ttl |-> FALSE,
             pcl |-> "off", entry |-> NoEntryLogged, n |-> 0, hist |-> <<>>, all |-> <<>>,
             failed |-> FALSE]

VARIABLES
  procs,      \* the callers that exist (fixed by Init)
  rdb,        \* TRUE iff a Redis client is configured (userService.rdb # nil)
  store,      \* the users table: a set of User records
  nextID,     \* the table's auto-increment counter
  cache,      \* Redis: key -> entry
  logLen,     \* length of the Redis list the logger pushes to
  pc,         \* per caller: position in its call
  call,       \* per caller: the operation and its arguments
  loc,        \* per caller: the local *models.User being built
  trace,      \* per caller: the store and cache calls made so far
  result,     \* per caller: what the call returned
  faults,     \* TRUE iff store and cache round trips may fail (fixed by Init)
  forged,     \* TRUE iff clients also send tokens made elsewhere (fixed by Init)
  now,        \* the clock, in hours
  held,       \* the token the client got from its last successful login
  panics,     \* panics recovered so far (the "[panic]" lines of the log)
  req,        \* per caller: the HTTP request being served
  resp,       \* per caller: the HTTP response written
  pure,       \* argument and result of a function called on its own
  rlog        \* a redislog.Logger made on its own, with the list it writes to

vars == <<procs, rdb, store, nextID, cache, logLen, pc, call, loc, trace, result,
          faults, forged, now, held, panics, req, resp, pure, rlog>>

\* ------------------------------------------------------------ core.NormalizeName
\* A Go string is a sequence of bytes.  An ASCII byte is written as its
\* character, any other byte as its two hexadecimal digits: "C3" "A9" is the
\* UTF-8 encoding of U+00E9 (e with acute), "C3" "89" that of U+00C9.
IsSpace(c) == c \in {" ", "\t", "\n"}

Ascii == {" ", "\t", "\n", "a", "b", "h", "x", "A", "B", "H", "X"}

Continuation == {"A9", "89", "BF", "BD"}

\* utf8.RuneError (U+FFFD) as strings.Map writes it
RuneError == <<"EF", "BF", "BD">>

\* unicode.ToUpper on an ASCII byte
UpperAscii(c) ==
  CASE c = "a" -> "A"
    [] c = "b" -> "B"
    [] c = "h" -> "H"
    [] c = "x" -> "X"
    [] OTHER   -> c

\* strings.ToUpper: rune by rune; a byte that starts no valid encoding is
\* decoded as utf8.RuneError and written back as the three bytes of U+FFFD
RECURSIVE ToUpper(_)
ToUpper(s) ==
  IF s = <<>> THEN <<>>
  ELSE IF Head(s) \in Ascii THEN <<UpperAscii(Head(s))>> \o ToUpper(Tail(s))
  ELSE IF Head(s) = "C3" /\ Len(s) >= 2 /\ s[2] \in Continuation
       THEN <<"C3", IF s[2] = "A9" THEN "89" ELSE s[2]>> \o ToUpper(Tail(Tail(s)))
  ELSE RuneError \o ToUpper(Tail(s))

RECURSIVE TrimLeft(_)
TrimLeft(s) == IF s # <<>> /\ IsSpace(Head(s)) THEN TrimLeft(Tail(s)) ELSE s

RECURSIVE TrimRight(_)
TrimRight(s) ==
  IF s # <<>> /\ IsSpace(s[Len(s)]) THEN TrimRight(SubSeq(s, 1, Len(s) - 1)) ELSE s

TrimSpace(s) == TrimRight(TrimLeft(s))

NormalizeName(s) ==
  LET t == TrimSpace(s)
  IN  IF t = <<>> THEN t ELSE ToUpper(SubSeq(t, 1, 1)) \o Tail(t)

\* ------------------------------------------------------------ utils hash
\* A password is a sequence of bytes.  bcrypt appends a zero byte to it and
\* expands the result cyclically into the MaxPasswordBytes bytes of the
\* Blowfish key schedule; the hash is a function of these bytes (and of the
\* salt kept in the hash).
Key(raw) ==
  LET ckey == Append(raw, "00")
  IN  [i \in 1..MaxPasswordBytes |-> ckey[((i - 1) % Len(ckey)) + 1]]

\* bcrypt.GenerateFromPassword refuses a password of more than 72 bytes
HashPassword(raw) ==
  IF Len(raw) > MaxPasswordBytes THEN [hash |-> NoHash, err |-> ErrTooLong]
  ELSE [hash |-> <<"$2a$", Key(raw)>>, err |-> ErrNone]

\* bcrypt.CompareHashAndPassword hashes raw again, whatever its length
CheckPassword(hash, raw) ==
  /\ Len(hash) = 2
  /\ hash[1] = "$2a$"
  /\ hash[2] = Key(raw)

\* ------------------------------------------------------------ JSON of a User
\* json.Marshal drops Password (json:"-"); json.Unmarshal therefore yields a
\* User with an empty Password, and fails on a value that is not JSON.
Marshal(u) == [kind |-> "user", id |-> u.ID, name |-> u.Name, email |-> u.Email]

Unmarshal(v) ==
  IF v.kind = "user"
  THEN [ok |-> TRUE,
        user |-> [ID |-> v.id, Name |-> v.name, Email |-> v.email, Password |-> NoHash]]
  ELSE [ok |-> FALSE, user |-> ZeroUser]

\* one key for every user
cacheKeyUser_Shared(id) == <<"user:", 1>>

cacheKeyUser(id) == <<"user:", id>>

Keys == { cacheKeyUser(i) : i \in Ids }

\* the keys another client of the same Redis is seen to overwrite
ForeignKeys == { cacheKeyUser(1) }

\* ------------------------------------------------------------ repository
\* Each operation takes the table and a flag saying whether the database
\* fails this round trip, and returns what the Go method returns.
RowsByEmail(tbl, email) == { r \in tbl : r.Email = email }
RowsByID(tbl, id)       == { r \in tbl : r.ID = id }

MinRow(rows) == CHOOSE r \in rows : \A q \in rows : r.ID <= q.ID

FindByEmail(tbl, email, dberr) ==
  IF dberr THEN [user |-> ZeroUser, err |-> ErrDB]
  ELSE IF RowsByEmail(tbl, email) = {} THEN [user |-> ZeroUser, err |-> ErrRecordNotFound]
  ELSE [user |-> MinRow(RowsByEmail(tbl, email)), err |-> ErrNone]

FindByID(tbl, id, dberr) ==
  IF dberr THEN [user |-> ZeroUser, err |-> ErrDB]
  ELSE IF RowsByID(tbl, id) = {} THEN [user |-> ZeroUser, err |-> ErrRecordNotFound]
  ELSE [user |-> MinRow(RowsByID(tbl, id)), err |-> ErrNone]

\* INSERT: the unique index on email rejects a duplicate; the row gets the
\* next auto-increment value, which GORM writes back into the struct.
Create_NoUniqueIndex(tbl, next, u, dberr) ==
  IF dberr THEN [tbl |-> tbl, next |-> next, user |-> u, err |-> ErrDB]
  ELSE LET row == [u EXCEPT !.ID = next]
       IN  [tbl |-> tbl \cup {row}, next |-> next + 1, user |-> row, err |-> ErrNone]

Create(tbl, next, u, dberr) ==
  IF dberr THEN [tbl |-> tbl, next |-> next, user |-> u, err |-> ErrDB]
  ELSE IF RowsByEmail(tbl, u.Email) # {}
       THEN [tbl |-> tbl, next |-> next, user |-> u, err |-> ErrDuplicate]
  ELSE LET row == [u EXCEPT !.ID = next]
       IN  [tbl |-> tbl \cup {row}, next |-> next + 1, user |-> row, err |-> ErrNone]

\* db.Save: UPDATE of all fields by primary key; when no row was affected
\* GORM falls back to INSERT ... ON DUPLICATE KEY UPDATE with the same key.
Update(tbl, u, dberr) ==
  IF dberr THEN [tbl |-> tbl, err |-> ErrDB]
  ELSE IF \E r \in tbl : r.ID # u.ID /\ r.Email = u.Email
       THEN [tbl |-> tbl, err |-> ErrDuplicate]
  ELSE [tbl |-> (tbl \ RowsByID(tbl, u.ID)) \cup {u}, err |-> ErrNone]

\* lines 86-95; the mutant leaves out the RowsAffected check
Delete_NoRowsCheck(tbl, id, dberr) ==
  IF dberr THEN [tbl |-> tbl, err |-> ErrDB]
  ELSE [tbl |-> tbl \ RowsByID(tbl, id), err |-> ErrNone]

Delete(tbl, id, dberr) ==
  IF dberr THEN [tbl |-> tbl, err |-> ErrDB]
  ELSE IF RowsByID(tbl, id) = {} THEN [tbl |-> tbl, err |-> ErrRecordNotFound]
  ELSE [tbl |-> tbl \ RowsByID(tbl, id), err |-> ErrNone]

\* ------------------------------------------------------------ Redis commands
ErrRedisNil == "redis: nil"
ErrRedis    == "redis error"

RedisGet(c, k, fail) ==
  IF fail THEN [val |-> NoJSON, err |-> ErrRedis]
  ELSE IF ~c[k].present THEN [val |-> NoJSON, err |-> ErrRedisNil]
  ELSE [val |-> c[k].val, err |-> ErrNone]

RedisSet(c, k, v, ttl, fail) ==
  IF fail THEN [cache |-> c, err |-> ErrRedis]
  ELSE [cache |-> [c EXCEPT ![k] = [present |-> TRUE, val |-> v, ttl |-> ttl]], err |-> ErrNone]

\* a DEL that reports success and removes nothing
RedisDel_Keeps(c, k, fail) == [cache |-> c, err |-> ErrNone]

RedisDel(c, k, fail) ==
  IF fail THEN [cache |-> c, err |-> ErrRedis]
  ELSE [cache |-> [c EXCEPT ![k] = NoEntry], err |-> ErrNone]

\* ------------------------------------------------------------ shapes of calls
NoCall ==
  [op |-> "none", id |-> 0, name |-> <<>>, email |-> "", password |-> <<>>,
   hasName |-> FALSE, hasEmail |-> FALSE, hasPassword |-> FALSE,
   page |-> 0, limit |-> 0, secret |-> ""]

Ev(op, key, email, user, val, ttl, a, b, err) ==
  [op |-> op, key |-> key, email |-> email, user |-> user, val |-> val,
   ttl |-> ttl, offset |-> a, limit |-> b, err |-> err]

NoKey == <<"", 0>>

Res(err, user, token, paged) ==
  [err |-> err, user |-> user, token |-> token, paged |-> paged]

NoResult == Res(ErrNone, ZeroUser, NoToken, NoPaged)

\* ------------------------------------------------------------ HTTP shapes
NoUID    == [set |-> FALSE, val |-> 0]
NoRaw    == [kind |-> "empty", tok |-> NoToken]
NoHeader == [scheme |-> "", raw |-> NoRaw]
NoReq    == [route |-> "", hdr |-> NoHeader, uid |-> NoUID, ran |-> FALSE]
NoResp   == [status |-> 0, error |-> "", user |-> NoJSON, token |-> NoToken,
             paged |-> NoPaged, panicked |-> FALSE]

\* the outcomes of a store or cache round trip the environment may choose
Faults == IF faults THEN BOOLEAN ELSE {FALSE}

\* ------------------------------------------------------------ redislog
\* n calls of Info/Warn/Error: LPUSH then LTRIM 0..max-1; a logger without
\* a Redis client is a no-op.
Logged(len, n) ==
  IF ~rdb THEN len
  ELSE IF len + n > LogMax THEN LogMax ELSE len + n

\* ------------------------------------------------------------ initial state
Init ==
  /\ procs = {1}
  /\ rdb \in BOOLEAN
  /\ store = {}
  /\ nextID = 1
  /\ cache = [k \in Keys |-> NoEntry]
  /\ logLen = 0
  /\ pc = [p \in AllProcs |-> "idle"]
  /\ call = [p \in AllProcs |-> NoCall]
  /\ loc = [p \in AllProcs |-> ZeroUser]
  /\ trace = [p \in AllProcs |-> <<>>]
  /\ result = [p \in AllProcs |-> NoResult]
  /\ faults = TRUE
  /\ forged = FALSE
  /\ now = 0
  /\ held = NoToken
  /\ panics = 0
  /\ req = [p \in AllProcs |-> NoReq]
  /\ resp = [p \in AllProcs |-> NoResp]
  /\ pure = NoPure
  /\ rlog = NoLog

\* ------------------------------------------------------------ decisions of the service
\* line 60: `err == nil` means a row with that email exists
RegisterEmailTaken_Never(f) == FALSE

RegisterEmailTaken(f) == f.err = ErrNone

\* lines 73-77: the entity handed to Create
NewUser_RawName(c, hash) ==
  [ID |-> 0, Name |-> c.name, Email |-> c.email, Password |-> hash]

NewUser(c, hash) ==
  [ID |-> 0, Name |-> NormalizeName(c.name), Email |-> c.email, Password |-> hash]

\* lines 103-106: whatever the lookup failed with, the caller sees one error
LoginLookupError_Leaks(f) == f.err

LoginLookupError(f) == ErrInvalidCreds

\* lines 143-145: a cached value is used only when Get succeeded and it decodes
CacheHit_Never(g) == FALSE

CacheHit_AnyValue(g) == g.err = ErrNone

CacheHit(g) == g.err = ErrNone /\ Unmarshal(g.val).ok

\* lines 89, 171-178, 238-246, 262-267: the error of a cache write made after
\* the store operation is dropped (`_ =`) or only logged
BestEffort_Propagates(u, err) ==
  IF err # ErrNone THEN Res(err, ZeroUser, NoToken, NoPaged)
  ELSE Res(ErrNone, u, NoToken, NoPaged)

BestEffort_FailsDelete(u, err) ==
  IF u = ZeroUser /\ err # ErrNone THEN Res(err, ZeroUser, NoToken, NoPaged)
  ELSE Res(ErrNone, u, NoToken, NoPaged)

BestEffort(u, err) == Res(ErrNone, u, NoToken, NoPaged)

\* lines 207-209
ApplyName_Raw(u, c) == IF c.hasName THEN [u EXCEPT !.Name = c.name] ELSE u

ApplyName(u, c) == IF c.hasName THEN [u EXCEPT !.Name = NormalizeName(c.name)] ELSE u

\* line 212: `err == nil` means another row holds the new email
UpdateEmailTaken_Never(f) == FALSE

UpdateEmailTaken(f) == f.err = ErrNone

\* ------------------------------------------------------------ helpers of steps
Finish(p, r, t) ==
  /\ pc' = [pc EXCEPT ![p] = "done"]
  /\ result' = [result EXCEPT ![p] = r]
  /\ trace' = [trace EXCEPT ![p] = t]

Goto(p, l, t) ==
  /\ pc' = [pc EXCEPT ![p] = l]
  /\ trace' = [trace EXCEPT ![p] = t]
  /\ UNCHANGED result

\* ------------------------------------------------------------ Register
\* the call enters Register (or its alias CreateUser) with its arguments
BeginRegister(p, op, n, e, w) ==
  /\ p \in procs /\ pc[p] = "idle"
  /\ nextID <= MaxId
  /\ call' = [call EXCEPT ![p] =
                [NoCall EXCEPT !.op = op, !.name = n, !.email = e, !.password = w]]
  /\ logLen' = Logged(logLen, IF op = "CreateUser" THEN 1 ELSE 0)
  /\ pc' = [pc EXCEPT ![p] = "reg_find"]
  /\ UNCHANGED <<rlog, pure, procs, rdb, faults, forged, now, held, panics, store, nextID, cache, loc, trace, result>>

StartRegister(p) ==
  /\ \E op \in {"Register", "CreateUser"}, n \in NameInputs, e \in Emails, w \in Passwords :
       BeginRegister(p, op, n, e, w)
  /\ UNCHANGED <<req, resp>>

\* lines 60-77: uniqueness pre-check, hash, build the entity
RegisterFind(p) ==
  /\ p \in procs /\ pc[p] = "reg_find"
  /\ \E dberr \in Faults :
       LET c == call[p]
           f == FindByEmail(store, c.email, dberr)
           t == Append(trace[p], Ev("FindByEmail", NoKey, c.email, f.user, NoJSON, 0, 0, 0, f.err))
           h == HashPassword(c.password)
       IN  IF RegisterEmailTaken(f)
           THEN /\ Finish(p, Res(ErrEmailExists, ZeroUser, NoToken, NoPaged), t)
                /\ logLen' = Logged(logLen, 1)
                /\ UNCHANGED loc
           ELSE IF h.err # ErrNone
           THEN /\ Finish(p, Res(h.err, ZeroUser, NoToken, NoPaged), t)
                /\ logLen' = Logged(logLen, 1)
                /\ UNCHANGED loc
           ELSE /\ Goto(p, "reg_create", t)
                /\ loc' = [loc EXCEPT ![p] = NewUser(c, h.hash)]
                /\ UNCHANGED logLen
  /\ UNCHANGED <<rlog, pure, procs, rdb, faults, forged, now, held, panics, req, resp, store, nextID, cache, call>>

\* lines 80-83 (and 95-96 without a cache)
RegisterCreate(p) ==
  /\ p \in procs /\ pc[p] = "reg_create"
  /\ nextID <= MaxId
  /\ \E dberr \in Faults :
       LET r == Create(store, nextID, loc[p], dberr)
           t == Append(trace[p], Ev("Create", NoKey, loc[p].Email, r.user, NoJSON, 0, 0, 0, r.err))
       IN  /\ store' = r.tbl
           /\ nextID' = r.next
           /\ loc' = [loc EXCEPT ![p] = r.user]
           /\ IF r.err # ErrNone
              THEN /\ Finish(p, Res(r.err, ZeroUser, NoToken, NoPaged), t)
                   /\ logLen' = Logged(logLen, 1)
              ELSE IF rdb
              THEN /\ Goto(p, "reg_cache", t)
                   /\ UNCHANGED logLen
              ELSE /\ Finish(p, Res(ErrNone, r.user, NoToken, NoPaged), t)
                   /\ logLen' = Logged(logLen, 1)
  /\ UNCHANGED <<rlog, pure, procs, rdb, faults, forged, now, held, panics, req, resp, cache, call>>

\* lines 86-96: best-effort cache warm, then success
RegisterCache(p) ==
  /\ p \in procs /\ pc[p] = "reg_cache"
  /\ \E fail \in Faults :
       LET u == loc[p]
           k == cacheKeyUser(u.ID)
           b == Marshal(u)
           r == RedisSet(cache, k, b, userCacheTTL, fail)
           t == Append(trace[p], Ev("Set", k, "", ZeroUser, b, userCacheTTL, 0, 0, r.err))
       IN  /\ cache' = r.cache
           /\ Finish(p, BestEffort(u, r.err), t)
  /\ logLen' = Logged(logLen, 2)
  /\ UNCHANGED <<rlog, pure, procs, rdb, faults, forged, now, held, panics, req, resp, store, nextID, call, loc>>

\* ------------------------------------------------------------ Login
BeginLogin(p, e, w, s) ==
  /\ p \in procs /\ pc[p] = "idle"
  /\ call' = [call EXCEPT ![p] =
                [NoCall EXCEPT !.op = "Login", !.email = e, !.password = w, !.secret = s]]
  /\ pc' = [pc EXCEPT ![p] = "login_find"]
  /\ UNCHANGED <<rlog, pure, procs, rdb, faults, forged, now, held, panics, store, nextID, cache, logLen, loc, trace, result>>

StartLogin(p) ==
  /\ \E e \in Emails, w \in LoginPasswords, s \in Secrets : BeginLogin(p, e, w, s)
  /\ UNCHANGED <<req, resp>>

\* jwt.NewWithClaims + SignedString with HS256 at time `at`: the claims sub
\* (the id, a JSON number), exp = at + exp, iat = at and eml
SignToken_NoExpiry(u, secret, exp, at) ==
  [sub |-> NumSub(u.ID), eml |-> u.Email, key |-> secret, alg |-> "HS256",
   hasExp |-> FALSE, exp |-> 0, iat |-> at]

SignToken(u, secret, exp, at) ==
  [sub |-> NumSub(u.ID), eml |-> u.Email, key |-> secret, alg |-> "HS256",
   hasExp |-> TRUE, exp |-> at + exp, iat |-> at]

\* lines 100-132
Login(p) ==
  /\ p \in procs /\ pc[p] = "login_find"
  /\ \E dberr \in Faults :
       LET c == call[p]
           f == FindByEmail(store, c.email, dberr)
           t == Append(trace[p], Ev("FindByEmail", NoKey, c.email, f.user, NoJSON, 0, 0, 0, f.err))
       IN  IF f.err # ErrNone
           THEN Finish(p, Res(LoginLookupError(f), ZeroUser, NoToken, NoPaged), t)
           ELSE IF ~CheckPassword(f.user.Password, c.password)
           THEN Finish(p, Res(ErrInvalidCreds, ZeroUser, NoToken, NoPaged), t)
           ELSE Finish(p, Res(ErrNone, ZeroUser, SignToken(f.user, c.secret, JWTExpires, now), NoPaged), t)
  /\ logLen' = Logged(logLen, 1)
  /\ UNCHANGED <<rlog, pure, procs, rdb, faults, forged, now, held, panics, req, resp, store, nextID, cache, call, loc>>

\* ------------------------------------------------------------ GetByID
BeginGet(p, op, id) ==
  /\ p \in procs /\ pc[p] = "idle"
  /\ call' = [call EXCEPT ![p] = [NoCall EXCEPT !.op = op, !.id = id]]
  /\ logLen' = Logged(logLen, IF op = "GetUser" THEN 1 ELSE 0)
  /\ pc' = [pc EXCEPT ![p] = IF rdb THEN "get_cache" ELSE "get_db"]
  /\ UNCHANGED <<rlog, pure, procs, rdb, faults, forged, now, held, panics, store, nextID, cache, loc, trace, result>>

StartGet(p) ==
  /\ \E op \in {"GetByID", "GetUser"}, id \in Ids : BeginGet(p, op, id)
  /\ UNCHANGED <<req, resp>>

\* lines 137-156: try the cache; only a decodable hit returns
\* a read that also pushes the expiry of the entry it hits (GETEX)
GetByIDCache_RefreshesTTL(p) ==
  /\ p \in procs /\ pc[p] = "get_cache"
  /\ \E fail \in Faults :
       LET k == cacheKeyUser(call[p].id)
           g == RedisGet(cache, k, fail)
           d == Unmarshal(g.val)
           t == Append(trace[p], Ev("Get", k, "", ZeroUser, g.val, 0, 0, 0, g.err))
       IN  IF CacheHit(g)
           THEN /\ Finish(p, Res(ErrNone, d.user, NoToken, NoPaged), t)
                /\ cache' = [cache EXCEPT ![k].ttl = userCacheTTL]
           ELSE Goto(p, "get_db", t) /\ UNCHANGED cache
  /\ logLen' = Logged(logLen, 2)
  /\ UNCHANGED <<rlog, pure, procs, rdb, faults, forged, now, held, panics, req, resp, store, nextID, call, loc>>

GetByIDCache(p) ==
  /\ p \in procs /\ pc[p] = "get_cache"
  /\ \E fail \in Faults :
       LET k == cacheKeyUser(call[p].id)
           g == RedisGet(cache, k, fail)
           d == Unmarshal(g.val)
           t == Append(trace[p], Ev("Get", k, "", ZeroUser, g.val, 0, 0, 0, g.err))
       IN  IF CacheHit(g)
           THEN Finish(p, Res(ErrNone, d.user, NoToken, NoPaged), t)
           ELSE Goto(p, "get_db", t)
  /\ logLen' = Logged(logLen, 2)
  /\ UNCHANGED <<rlog, pure, procs, rdb, faults, forged, now, held, panics, req, resp, store, nextID, cache, call, loc>>

\* lines 159-164 (and 178 without a cache)
GetByIDStore(p) ==
  /\ p \in procs /\ pc[p] = "get_db"
  /\ \E dberr \in Faults :
       LET f == FindByID(store, call[p].id, dberr)
           t == Append(trace[p], Ev("FindByID", cacheKeyUser(call[p].id), "", f.user, NoJSON, 0, 0, 0, f.err))
       IN  /\ loc' = [loc EXCEPT ![p] = f.user]
           /\ IF f.err # ErrNone
              THEN Finish(p, Res(f.err, ZeroUser, NoToken, NoPaged), t)
              ELSE IF rdb
              THEN Goto(p, "get_set", t)
              ELSE Finish(p, Res(ErrNone, f.user, NoToken, NoPaged), t)
  /\ logLen' = Logged(logLen, 1)
  /\ UNCHANGED <<rlog, pure, procs, rdb, faults, forged, now, held, panics, req, resp, store, nextID, cache, call>>

\* lines 167-178: best-effort populate, then the store's user
GetByIDPopulate(p) ==
  /\ p \in procs /\ pc[p] = "get_set"
  /\ \E fail \in Faults :
       LET k == cacheKeyUser(call[p].id)
           b == Marshal(loc[p])
           r == RedisSet(cache, k, b, userCacheTTL, fail)
           t == Append(trace[p], Ev("Set", k, "", ZeroUser, b, userCacheTTL, 0, 0, r.err))
       IN  /\ cache' = r.cache
           /\ Finish(p, BestEffort(loc[p], r.err), t)
  /\ logLen' = Logged(logLen, 1)
  /\ UNCHANGED <<rlog, pure, procs, rdb, faults, forged, now, held, panics, req, resp, store, nextID, call, loc>>

\* ------------------------------------------------------------ UpdateUser
\* a nil pointer field of UpdateUserRequest is hn, he or hp = FALSE
BeginUpdate(p, id, hn, n, he, e, hp, w) ==
  /\ p \in procs /\ pc[p] = "idle"
  /\ call' = [call EXCEPT ![p] =
                [NoCall EXCEPT !.op = "UpdateUser", !.id = id,
                               !.hasName = hn, !.name = n,
                               !.hasEmail = he, !.email = e,
                               !.hasPassword = hp, !.password = w]]
  /\ pc' = [pc EXCEPT ![p] = "upd_find"]
  /\ logLen' = Logged(logLen, 1)
  /\ UNCHANGED <<rlog, pure, procs, rdb, faults, forged, now, held, panics, store, nextID, cache, loc, trace, result>>

StartUpdate(p) ==
  /\ \E id \in Ids, hn \in BOOLEAN, he \in BOOLEAN, hp \in BOOLEAN :
     \E n \in (IF hn THEN NameInputs ELSE {<<>>}),
        e \in (IF he THEN Emails ELSE {""}),
        w \in (IF hp THEN Passwords ELSE {<<>>}) :
       BeginUpdate(p, id, hn, n, he, e, hp, w)
  /\ UNCHANGED <<req, resp>>

\* lines 219-226 applied to the local copy u; then on to the store's Update
UpdatePassword(p, u, t) ==
  LET c == call[p]
      h == HashPassword(c.password)
  IN  IF c.hasPassword /\ h.err # ErrNone
      THEN /\ Finish(p, Res(h.err, ZeroUser, NoToken, NoPaged), t)
           /\ logLen' = Logged(logLen, 1)
           /\ loc' = [loc EXCEPT ![p] = u]
      ELSE /\ Goto(p, "upd_save", t)
           /\ UNCHANGED logLen
           /\ loc' = [loc EXCEPT ![p] =
                        IF c.hasPassword THEN [u EXCEPT !.Password = h.hash] ELSE u]

\* lines 200-211: load, apply the name, decide whether the email changes
UpdateFind(p) ==
  /\ p \in procs /\ pc[p] = "upd_find"
  /\ \E dberr \in Faults :
       LET c == call[p]
           f == FindByID(store, c.id, dberr)
           t == Append(trace[p], Ev("FindByID", cacheKeyUser(c.id), "", f.user, NoJSON, 0, 0, 0, f.err))
           u == ApplyName(f.user, c)
       IN  IF f.err # ErrNone
           THEN /\ Finish(p, Res(f.err, ZeroUser, NoToken, NoPaged), t)
                /\ logLen' = Logged(logLen, 1)
                /\ UNCHANGED loc
           ELSE IF c.hasEmail /\ c.email # u.Email
           THEN /\ Goto(p, "upd_email", t)
                /\ loc' = [loc EXCEPT ![p] = u]
                /\ UNCHANGED logLen
           ELSE UpdatePassword(p, u, t)
  /\ UNCHANGED <<rlog, pure, procs, rdb, faults, forged, now, held, panics, req, resp, store, nextID, cache, call>>

\* lines 212-217: uniqueness pre-check of the new email
UpdateEmail(p) ==
  /\ p \in procs /\ pc[p] = "upd_email"
  /\ \E dberr \in Faults :
       LET c == call[p]
           f == FindByEmail(store, c.email, dberr)
           t == Append(trace[p], Ev("FindByEmail", NoKey, c.email, f.user, NoJSON, 0, 0, 0, f.err))
       IN  IF UpdateEmailTaken(f)
           THEN /\ Finish(p, Res(ErrEmailExists, ZeroUser, NoToken, NoPaged), t)
                /\ logLen' = Logged(logLen, 1)
                /\ UNCHANGED loc
           ELSE UpdatePassword(p, [loc[p] EXCEPT !.Email = c.email], t)
  /\ UNCHANGED <<rlog, pure, procs, rdb, faults, forged, now, held, panics, req, resp, store, nextID, cache, call>>

\* lines 229-232 (and 246 without a cache)
UpdateSave(p) ==
  /\ p \in procs /\ pc[p] = "upd_save"
  /\ \E dberr \in Faults :
       LET r == Update(store, loc[p], dberr)
           t == Append(trace[p], Ev("Update", cacheKeyUser(loc[p].ID), loc[p].Email, loc[p], NoJSON, 0, 0, 0, r.err))
       IN  /\ store' = r.tbl
           /\ IF r.err # ErrNone
              THEN /\ Finish(p, Res(r.err, ZeroUser, NoToken, NoPaged), t)
                   /\ logLen' = Logged(logLen, 1)
              ELSE IF rdb
              THEN /\ Goto(p, "upd_del", t)
                   /\ UNCHANGED logLen
              ELSE /\ Finish(p, Res(ErrNone, loc[p], NoToken, NoPaged), t)
                   /\ UNCHANGED logLen
  /\ UNCHANGED <<rlog, pure, procs, rdb, faults, forged, now, held, panics, req, resp, nextID, cache, call, loc>>

\* line 238: best-effort invalidate
UpdateCacheDel(p) ==
  /\ p \in procs /\ pc[p] = "upd_del"
  /\ \E fail \in Faults :
       LET k == cacheKeyUser(call[p].id)
           r == RedisDel(cache, k, fail)
           t == Append(trace[p], Ev("Del", k, "", ZeroUser, NoJSON, 0, 0, 0, r.err))
       IN  /\ cache' = r.cache
           /\ Goto(p, "upd_set", t)
  /\ UNCHANGED <<rlog, pure, procs, rdb, faults, forged, now, held, panics, req, resp, store, nextID, logLen, call, loc>>

\* lines 239-246: best-effort set, then the updated user
UpdateCacheSet(p) ==
  /\ p \in procs /\ pc[p] = "upd_set"
  /\ \E fail \in Faults :
       LET k == cacheKeyUser(call[p].id)
           b == Marshal(loc[p])
           r == RedisSet(cache, k, b, userCacheTTL, fail)
           t == Append(trace[p], Ev("Set", k, "", ZeroUser, b, userCacheTTL, 0, 0, r.err))
       IN  /\ cache' = r.cache
           /\ Finish(p, BestEffort(loc[p], r.err), t)
  /\ logLen' = Logged(logLen, 1)
  /\ UNCHANGED <<rlog, pure, procs, rdb, faults, forged, now, held, panics, req, resp, store, nextID, call, loc>>

\* ------------------------------------------------------------ DeleteUser
BeginDelete(p, id) ==
  /\ p \in procs /\ pc[p] = "idle"
  /\ call' = [call EXCEPT ![p] = [NoCall EXCEPT !.op = "DeleteUser", !.id = id]]
  /\ pc' = [pc EXCEPT ![p] = "del_db"]
  /\ logLen' = Logged(logLen, 1)
  /\ UNCHANGED <<rlog, pure, procs, rdb, faults, forged, now, held, panics, store, nextID, cache, loc, trace, result>>

StartDelete(p) ==
  /\ \E id \in Ids : BeginDelete(p, id)
  /\ UNCHANGED <<req, resp>>

\* lines 254-257 (and 266-267 without a cache)
DeleteStore(p) ==
  /\ p \in procs /\ pc[p] = "del_db"
  /\ \E dberr \in Faults :
       LET r == Delete(store, call[p].id, dberr)
           t == Append(trace[p], Ev("Delete", cacheKeyUser(call[p].id), "", ZeroUser, NoJSON, 0, 0, 0, r.err))
       IN  /\ store' = r.tbl
           /\ IF r.err # ErrNone
              THEN /\ Finish(p, Res(r.err, ZeroUser, NoToken, NoPaged), t)
                   /\ logLen' = Logged(logLen, 1)
              ELSE IF rdb
              THEN /\ Goto(p, "del_cache", t)
                   /\ UNCHANGED logLen
              ELSE /\ Finish(p, Res(ErrNone, ZeroUser, NoToken, NoPaged), t)
                   /\ logLen' = Logged(logLen, 1)
  /\ UNCHANGED <<rlog, pure, procs, rdb, faults, forged, now, held, panics, req, resp, nextID, cache, call, loc>>

\* lines 260-267: best-effort delete of the key, then success
DeleteCache(p) ==
  /\ p \in procs /\ pc[p] = "del_cache"
  /\ \E fail \in Faults :
       LET k == cacheKeyUser(call[p].id)
           r == RedisDel(cache, k, fail)
           t == Append(trace[p], Ev("Del", k, "", ZeroUser, NoJSON, 0, 0, 0, r.err))
       IN  /\ cache' = r.cache
           /\ Finish(p, BestEffort(ZeroUser, r.err), t)
  /\ logLen' = Logged(logLen, 1)
  /\ UNCHANGED <<rlog, pure, procs, rdb, faults, forged, now, held, panics, req, resp, store, nextID, call, loc>>

\* ------------------------------------------------------------ ListUsers
\* Go's int arithmetic: the result wraps into MinInt..MaxInt
WrapInt(x) == ((x - MinInt) % (2^IntBits)) + MinInt

RECURSIVE SortByID(_)
SortByID(rows) ==
  IF rows = {} THEN <<>> ELSE <<MinRow(rows)>> \o SortByID(rows \ {MinRow(rows)})

\* COUNT(*), then SELECT ... ORDER BY id ASC LIMIT limit OFFSET offset; GORM
\* emits OFFSET only for offset > 0 and LIMIT only for limit > 0.
List(tbl, offset, limit, dberr) ==
  IF dberr THEN [items |-> <<>>, total |-> 0, err |-> ErrDB]
  ELSE LET all  == SortByID(tbl)
           from == IF offset > 0 THEN offset + 1 ELSE 1
           rest == SubSeq(all, from, Len(all))
           page == IF limit > 0 /\ limit < Len(rest) THEN SubSeq(rest, 1, limit) ELSE rest
       IN  [items |-> page, total |-> Cardinality(tbl), err |-> ErrNone]

\* lines 275-276
ClampPage(page)   == IF page < 1 THEN 1 ELSE page
ClampLimit(limit) == IF limit <= 0 \/ limit > MaxLimit THEN DefaultLimit ELSE limit

\* line 279
Offset(page, limit) == WrapInt((page - 1) * limit)

BeginList(p, pg, lm) ==
  /\ p \in procs /\ pc[p] = "idle"
  /\ call' = [call EXCEPT ![p] = [NoCall EXCEPT !.op = "ListUsers", !.page = pg, !.limit = lm]]
  /\ pc' = [pc EXCEPT ![p] = "list_db"]
  /\ logLen' = Logged(logLen, 1)
  /\ UNCHANGED <<rlog, pure, procs, rdb, faults, forged, now, held, panics, store, nextID, cache, loc, trace, result>>

StartList(p) ==
  /\ \E pg \in Pages, lm \in Limits : BeginList(p, pg, lm)
  /\ UNCHANGED <<req, resp>>

\* lines 275-295
ListUsers(p) ==
  /\ p \in procs /\ pc[p] = "list_db"
  /\ \E dberr \in Faults :
       LET page   == ClampPage(call[p].page)
           limit  == ClampLimit(call[p].limit)
           offset == Offset(page, limit)
           r == List(store, offset, limit, dberr)
           t == Append(trace[p], Ev("List", NoKey, "", ZeroUser, NoJSON, 0, offset, limit, r.err))
       IN  IF r.err # ErrNone
           THEN Finish(p, Res(r.err, ZeroUser, NoToken, NoPaged), t)
           ELSE Finish(p, Res(ErrNone, ZeroUser, NoToken,
                              [Items |-> r.items, Total |-> r.total, Page |-> page, Limit |-> limit]), t)
  /\ logLen' = Logged(logLen, 1)
  /\ UNCHANGED <<rlog, pure, procs, rdb, faults, forged, now, held, panics, req, resp, store, nextID, cache, call, loc>>

\* ------------------------------------------------------------ environment
\* Redis drops an entry whose time-to-live has run out
CacheExpire(k) ==
  /\ rdb /\ cache[k].present
  /\ cache' = [cache EXCEPT ![k] = NoEntry]
  /\ UNCHANGED <<rlog, pure, procs, rdb, faults, forged, now, held, panics, req, resp, store, nextID, logLen, pc, call, loc, trace, result>>

\* another client of the same Redis leaves a value that is not a user's JSON
CacheForeignWrite(k) ==
  /\ rdb /\ cache[k] # [present |-> TRUE, val |-> Garbage, ttl |-> 0]
  /\ cache' = [cache EXCEPT ![k] = [present |-> TRUE, val |-> Garbage, ttl |-> 0]]
  /\ UNCHANGED <<rlog, pure, procs, rdb, faults, forged, now, held, panics, req, resp, store, nextID, logLen, pc, call, loc, trace, result>>

\* the caller takes the result; the goroutine's locals are gone
Return(p) ==
  /\ p \in procs /\ pc[p] = "done"
  /\ pc' = [pc EXCEPT ![p] = "idle"]
  /\ call' = [call EXCEPT ![p] = NoCall]
  /\ loc' = [loc EXCEPT ![p] = ZeroUser]
  /\ trace' = [trace EXCEPT ![p] = <<>>]
  /\ result' = [result EXCEPT ![p] = NoResult]
  /\ UNCHANGED <<rlog, pure, procs, rdb, faults, forged, now, held, panics, req, resp, store, nextID, cache, logLen>>

\* the store and cache round trips of each operation
RegisterSteps(p) == RegisterFind(p) \/ RegisterCreate(p) \/ RegisterCache(p)

GetSteps(p) == GetByIDCache(p) \/ GetByIDStore(p) \/ GetByIDPopulate(p)

UpdateSteps(p) ==
  \/ UpdateFind(p)
  \/ UpdateEmail(p)
  \/ UpdateSave(p)
  \/ UpdateCacheDel(p)
  \/ UpdateCacheSet(p)

DeleteSteps(p) == DeleteStore(p) \/ DeleteCache(p)

Service(p) ==
  \/ StartRegister(p)
  \/ RegisterFind(p)
  \/ RegisterCreate(p)
  \/ RegisterCache(p)
  \/ StartLogin(p)
  \/ Login(p)
  \/ StartGet(p)
  \/ GetByIDCache(p)
  \/ GetByIDStore(p)
  \/ GetByIDPopulate(p)
  \/ StartUpdate(p)
  \/ UpdateFind(p)
  \/ UpdateEmail(p)
  \/ UpdateSave(p)
  \/ UpdateCacheDel(p)
  \/ UpdateCacheSet(p)
  \/ StartDelete(p)
  \/ DeleteStore(p)
  \/ DeleteCache(p)
  \/ StartList(p)
  \/ ListUsers(p)
  \/ Return(p)

Next ==
  \/ \E p \in AllProcs : Service(p)
  \/ \E k \in Keys : CacheExpire(k)
  \/ \E k \in ForeignKeys : CacheForeignWrite(k)

Spec == Init /\ [][Next]_vars

\* ------------------------------------------------------------ two callers
\* Two goroutines of the HTTP server call the service at the same time; the
\* store and the cache answer every round trip.
ConcName == <<"b">>

InitConc ==
  /\ procs = AllProcs
  /\ rdb = TRUE
  /\ store = {}
  /\ nextID = 1
  /\ cache = [k \in Keys |-> NoEntry]
  /\ logLen = 0
  /\ pc = [p \in AllProcs |-> "idle"]
  /\ call = [p \in AllProcs |-> NoCall]
  /\ loc = [p \in AllProcs |-> ZeroUser]
  /\ trace = [p \in AllProcs |-> <<>>]
  /\ result = [p \in AllProcs |-> NoResult]
  /\ faults = FALSE
  /\ forged = FALSE
  /\ now = 0
  /\ held = NoToken
  /\ panics = 0
  /\ req = [p \in AllProcs |-> NoReq]
  /\ resp = [p \in AllProcs |-> NoResp]
  /\ pure = NoPure
  /\ rlog = NoLog

ConcRegister(p) ==
  /\ \E e \in Emails : BeginRegister(p, "Register", ConcName, e, Pw1)
  /\ UNCHANGED <<req, resp>>

ConcUpdate(p) ==
  /\ \E id \in Ids, e \in Emails : BeginUpdate(p, id, FALSE, <<>>, TRUE, e, FALSE, <<>>)
  /\ UNCHANGED <<req, resp>>

ConcDelete(p) ==
  /\ \E id \in Ids : BeginDelete(p, id)
  /\ UNCHANGED <<req, resp>>

ConcGet(p) ==
  /\ \E id \in Ids : BeginGet(p, "GetByID", id)
  /\ UNCHANGED <<req, resp>>

Caller(p) ==
  \/ ConcRegister(p)
  \/ ConcUpdate(p)
  \/ ConcDelete(p)
  \/ ConcGet(p)
  \/ RegisterSteps(p)
  \/ UpdateSteps(p)
  \/ DeleteSteps(p)
  \/ GetSteps(p)
  \/ Return(p)

NextConc == \E p \in AllProcs : Caller(p)

SpecConc == InitConc /\ [][NextConc]_vars

\* ------------------------------------------------------------ readers and writers of one user
\* Two callers that read, rename, re-address and delete users while cache
\* entries expire; every user is registered under the same email.
RaceEmail  == "a@b.c"
RaceEmail2 == "x@y.z"
RaceRename == <<"h">>

RaceRegister(p) ==
  /\ BeginRegister(p, "Register", ConcName, RaceEmail, Pw1)
  /\ UNCHANGED <<req, resp>>

RaceUpdateName(p) ==
  /\ \E id \in Ids : BeginUpdate(p, id, TRUE, RaceRename, FALSE, "", FALSE, <<>>)
  /\ UNCHANGED <<req, resp>>

RaceUpdateEmail(p) ==
  /\ \E id \in Ids : BeginUpdate(p, id, FALSE, <<>>, TRUE, RaceEmail2, FALSE, <<>>)
  /\ UNCHANGED <<req, resp>>

Racer(p) ==
  \/ RaceRegister(p)
  \/ RaceUpdateName(p)
  \/ RaceUpdateEmail(p)
  \/ ConcDelete(p)
  \/ ConcGet(p)
  \/ RegisterSteps(p)
  \/ UpdateSteps(p)
  \/ DeleteSteps(p)
  \/ GetSteps(p)
  \/ Return(p)

NextRace ==
  \/ \E p \in AllProcs : Racer(p)
  \/ \E k \in Keys : CacheExpire(k)

SpecRace == InitConc /\ [][NextRace]_vars

\* ------------------------------------------------------------ one caller, nothing fails
\* Calls of the service one after the other, with a Redis client and
\* without failing round trips; entries expire.
InitSeq ==
  /\ procs = {1}
  /\ rdb = TRUE
  /\ store = {}
  /\ nextID = 1
  /\ cache = [k \in Keys |-> NoEntry]
  /\ logLen = 0
  /\ pc = [p \in AllProcs |-> "idle"]
  /\ call = [p \in AllProcs |-> NoCall]
  /\ loc = [p \in AllProcs |-> ZeroUser]
  /\ trace = [p \in AllProcs |-> <<>>]
  /\ result = [p \in AllProcs |-> NoResult]
  /\ faults = FALSE
  /\ forged = FALSE
  /\ now = 0
  /\ held = NoToken
  /\ panics = 0
  /\ req = [p \in AllProcs |-> NoReq]
  /\ resp = [p \in AllProcs |-> NoResp]
  /\ pure = NoPure
  /\ rlog = NoLog

Sequential(p) ==
  \/ StartRegister(p)
  \/ StartGet(p)
  \/ StartUpdate(p)
  \/ StartDelete(p)
  \/ RegisterSteps(p)
  \/ GetSteps(p)
  \/ UpdateSteps(p)
  \/ DeleteSteps(p)
  \/ Return(p)

NextSeq ==
  \/ \E p \in AllProcs : Sequential(p)
  \/ \E k \in Keys : CacheExpire(k)

SpecSeq == InitSeq /\ [][NextSeq]_vars

\* ------------------------------------------------------------ entries that age
\* One caller that registers and reads users while the minutes pass: the ttl
\* of an entry is the number of minutes it has left.
Minute ==
  /\ \E k \in Keys : cache[k].present
  /\ cache' = [k \in Keys |->
                IF cache[k].present /\ cache[k].ttl > 1
                THEN [cache[k] EXCEPT !.ttl = cache[k].ttl - 1]
                ELSE NoEntry]
  /\ UNCHANGED <<rlog, pure, procs, rdb, faults, forged, now, held, panics, req, resp, store, nextID,
                 logLen, pc, call, loc, trace, result>>

InitTTL ==
  /\ procs = {1}
  /\ rdb = TRUE
  /\ store = {}
  /\ nextID = 1
  /\ cache = [k \in Keys |-> NoEntry]
  /\ logLen = 0
  /\ pc = [p \in AllProcs |-> "idle"]
  /\ call = [p \in AllProcs |-> NoCall]
  /\ loc = [p \in AllProcs |-> ZeroUser]
  /\ trace = [p \in AllProcs |-> <<>>]
  /\ result = [p \in AllProcs |-> NoResult]
  /\ faults = FALSE
  /\ forged = FALSE
  /\ now = 0
  /\ held = NoToken
  /\ panics = 0
  /\ req = [p \in AllProcs |-> NoReq]
  /\ resp = [p \in AllProcs |-> NoResp]
  /\ pure = NoPure
  /\ rlog = NoLog

Reader(p) ==
  \/ ConcRegister(p)
  \/ ConcGet(p)
  \/ RegisterSteps(p)
  \/ GetSteps(p)
  \/ Return(p)

NextTTL == (\E p \in AllProcs : Reader(p)) \/ Minute

SpecTTL == InitTTL /\ [][NextTTL]_vars

\* ============================================================ HTTP layer
\* routes.Setup: RequestLogger and Recovery around every route, Auth around
\* the protected group, the handlers of handlers/user_handler.go behind them.
jwtSecret   == "sec"       \* cfg.JWTSecret, handed to the handler and to Auth
OtherSecret == "other"     \* the secret of another deployment

HalfLife == JWTExpires \div 2

\* HalfLife hours pass; no cache entry lives that long (userCacheTTL minutes)
Tick ==
  /\ now < MaxTicks * HalfLife
  /\ now' = now + HalfLife
  /\ cache' = [k \in Keys |-> NoEntry]
  /\ UNCHANGED <<rlog, pure, procs, rdb, faults, forged, held, panics, req, resp, store, nextID,
                 logLen, pc, call, loc, trace, result>>

\* ------------------------------------------------------------ what a client sends
Jwt(t)      == [kind |-> "jwt", tok |-> t]
Junk        == [kind |-> "junk", tok |-> NoToken]
Bearer(raw) == [scheme |-> "Bearer ", raw |-> raw]

Forged(sub, key, alg, hasExp, exp) ==
  [sub |-> sub, eml |-> "", key |-> key, alg |-> alg, hasExp |-> hasExp,
   exp |-> exp, iat |-> 0]

SubInputs == {NumSub(1), StrSub("2"), StrSub("abc"), NoSub}

\* tokens made outside the service at time `at`: signed with the service's
\* secret for every shape of subject, without an expiration, expiring right
\* now, signed with another secret, and unsigned (alg none)
TokenInputs(at) ==
  { Forged(sub, jwtSecret, "HS256", TRUE, at + 1) : sub \in SubInputs }
  \cup { Forged(NumSub(1), jwtSecret, "HS256", FALSE, 0),
         Forged(NumSub(1), jwtSecret, "HS256", TRUE, at),
         Forged(NumSub(1), OtherSecret, "HS256", TRUE, at + 1),
         Forged(NumSub(1), jwtSecret, "none", TRUE, at + 1) }

\* the Authorization headers a client may send when it holds token h
HeaderInputs(at, h) ==
  {NoHeader}
  \cup { Bearer(Jwt(t)) : t \in {h} \ {NoToken} }
  \cup (IF forged
        THEN {Bearer(NoRaw), Bearer(Junk), [scheme |-> "Basic  ", raw |-> Junk]}
             \cup { Bearer(Jwt(t)) : t \in TokenInputs(at) }
             \cup { [scheme |-> "bearer ", raw |-> Jwt(t)] : t \in TokenInputs(at) }
        ELSE {})

IdParams == { ToString(i) : i \in Ids } \cup {"x"}

HttpName == <<" ", "a", "H", " ">>

NoBody == [valid |-> FALSE, name |-> <<>>, email |-> "", password |-> <<>>,
           hasName |-> FALSE, hasEmail |-> FALSE, hasPassword |-> FALSE]

RegisterBodies ==
  {NoBody} \cup { [NoBody EXCEPT !.valid = TRUE, !.name = HttpName, !.email = e,
                                 !.password = Pw1] : e \in Emails }

LoginBodies ==
  {NoBody} \cup { [NoBody EXCEPT !.valid = TRUE, !.email = e, !.password = w] :
                    e \in Emails, w \in LoginPasswords }

UpdateBodies ==
  {NoBody}
  \cup { [NoBody EXCEPT !.valid = TRUE, !.hasEmail = TRUE, !.email = e] : e \in Emails }
  \cup { [NoBody EXCEPT !.valid = TRUE, !.hasPassword = TRUE, !.password = Pw2] }

NoQuery == [present |-> FALSE, val |-> ""]
PageQueries  == {NoQuery, [present |-> TRUE, val |-> "2"], [present |-> TRUE, val |-> "x"]}
LimitQueries == {NoQuery, [present |-> TRUE, val |-> "1"]}

\* ------------------------------------------------------------ strconv
Numerals == 0..DefaultLimit

\* strconv.Atoi on the texts used here: a decimal numeral gives its value,
\* anything else (0, err)
Atoi(t) ==
  IF \E n \in Numerals : ToString(n) = t
  THEN [n |-> CHOOSE n \in Numerals : ToString(n) = t, ok |-> TRUE]
  ELSE [n |-> 0, ok |-> FALSE]

\* handlers.parseUint: strconv.ParseUint(s, 10, 0)
parseUint(t) ==
  IF \E n \in Numerals : ToString(n) = t
  THEN [n |-> CHOOSE n \in Numerals : ToString(n) = t, ok |-> TRUE]
  ELSE [n |-> 0, ok |-> FALSE]

\* ------------------------------------------------------------ middlewares.Auth
RawLen(raw) ==
  CASE raw.kind = "empty" -> 0
    [] raw.kind = "junk"  -> Len("not-a-jwt")
    [] OTHER              -> Len("h.c.s")

\* len(auth)
HeaderLen(h) == Len(h.scheme) + RawLen(h.raw)

\* auth[:7]; every scheme of HeaderInputs is 7 bytes long or the header is empty
Prefix7(h) == h.scheme

\* auth.go line 22
HasBearer_AnyScheme(h) == ~(HeaderLen(h) < 8)

HasBearer(h) == ~(HeaderLen(h) < 8 \/ Prefix7(h) # "Bearer ")

\* jwt.Parse with the key function of lines 29-31 at time `at`: the token
\* must have three parts, an HMAC signature made with the secret, and, when
\* it carries exp, at < exp
ParseToken_IgnoresExp(raw, secret, at) ==
  [valid |-> raw.kind = "jwt" /\ raw.tok.alg = "HS256" /\ raw.tok.key = secret,
   claims |-> raw.tok]

ParseToken(raw, secret, at) ==
  [valid |-> /\ raw.kind = "jwt"
             /\ raw.tok.alg = "HS256"
             /\ raw.tok.key = secret
             /\ (raw.tok.hasExp => at < raw.tok.exp),
   claims |-> raw.tok]

\* lines 44-52: the type switch on claims["sub"]
SubjectOf(claims) ==
  CASE claims.sub.kind = "number" -> [set |-> TRUE, val |-> claims.sub.num]
    [] claims.sub.kind = "string" ->
         IF Atoi(claims.sub.str).ok
         THEN [set |-> TRUE, val |-> Atoi(claims.sub.str).n]
         ELSE NoUID
    [] OTHER -> NoUID

Rejected(status, error) == [next |-> FALSE, status |-> status, error |-> error, uid |-> NoUID]

\* the user must still have a row: what Auth would do if it looked the subject up
Auth_ChecksUser(h, secret, at) ==
  IF ~HasBearer(h) THEN Rejected(401, "missing bearer token")
  ELSE IF ~ParseToken(h.raw, secret, at).valid THEN Rejected(401, "invalid token")
  ELSE IF RowsByID(store, SubjectOf(ParseToken(h.raw, secret, at).claims).val) = {}
       THEN Rejected(401, "invalid token")
  ELSE [next |-> TRUE, status |-> 0, error |-> "",
        uid |-> SubjectOf(ParseToken(h.raw, secret, at).claims)]

\* lines 19-54: next = TRUE iff c.Next() is reached
Auth(h, secret, at) ==
  IF ~HasBearer(h) THEN Rejected(401, "missing bearer token")
  ELSE IF ~ParseToken(h.raw, secret, at).valid THEN Rejected(401, "invalid token")
  ELSE [next |-> TRUE, status |-> 0, error |-> "",
        uid |-> SubjectOf(ParseToken(h.raw, secret, at).claims)]

\* ------------------------------------------------------------ middlewares.Recovery
Resp(status, error, user, token, paged) ==
  [status |-> status, error |-> error, user |-> user, token |-> token,
   paged |-> paged, panicked |-> FALSE]

Plain(status, error) == Resp(status, error, NoJSON, NoToken, NoPaged)

\* a handler that panicked has written nothing
Panic == [NoResp EXCEPT !.panicked = TRUE]

Recovery_Rethrows(out) == out

\* the deferred recover() of lines 87-93 around c.Next()
Recovery(out) == IF out.panicked THEN Plain(500, "internal error") ELSE out

\* ------------------------------------------------------------ handlers
\* the group behind middlewares.Auth
ProtectedRoutes ==
  {"GET /me", "POST /users", "GET /users", "GET /users/:id", "PUT /users/:id",
   "DELETE /users/:id"}

Request(rt, h, a) == [route |-> rt, hdr |-> h, uid |-> a.uid, ran |-> a.next]

Public(rt) == [route |-> rt, hdr |-> NoHeader, uid |-> NoUID, ran |-> TRUE]

\* the request is answered without a call of the service
Reply(p, r, out) ==
  /\ p \in procs /\ pc[p] = "idle"
  /\ pc' = [pc EXCEPT ![p] = "responded"]
  /\ req' = [req EXCEPT ![p] = r]
  /\ resp' = [resp EXCEPT ![p] = Recovery(out)]
  /\ UNCHANGED <<rlog, pure, procs, rdb, faults, forged, now, held, panics, store, nextID, cache, logLen,
                 call, loc, trace, result>>

\* the handler is inside a call of the service
Serving(p, r) ==
  /\ req' = [req EXCEPT ![p] = r]
  /\ UNCHANGED resp

\* user_handler.go: Register / CreateUser
RegisterHandler(p, r, op, b) ==
  IF ~b.valid THEN Reply(p, r, Plain(400, "invalid body"))
  ELSE BeginRegister(p, op, b.name, b.email, b.password) /\ Serving(p, r)

\* user_handler.go: GetUser
GetUserHandler(p, r, param) ==
  IF ~parseUint(param).ok THEN Reply(p, r, Plain(400, "invalid id"))
  ELSE BeginGet(p, "GetUser", parseUint(param).n) /\ Serving(p, r)

HttpRegister(p) ==
  /\ p \in procs /\ pc[p] = "idle"
  /\ \E b \in RegisterBodies :
       RegisterHandler(p, Public("POST /auth/register"), "Register", b)

HttpLogin(p) ==
  /\ p \in procs /\ pc[p] = "idle"
  /\ \E b \in LoginBodies :
       IF ~b.valid THEN Reply(p, Public("POST /auth/login"), Plain(400, "invalid body"))
       ELSE /\ BeginLogin(p, b.email, b.password, jwtSecret)
            /\ Serving(p, Public("POST /auth/login"))

\* GET /me is registered with uh.GetUser; the route has no :id parameter, so
\* c.Param("id") is ""
HttpMe(p) ==
  /\ p \in procs /\ pc[p] = "idle"
  /\ \E h \in HeaderInputs(now, held) :
       LET a == Auth(h, jwtSecret, now)
           r == Request("GET /me", h, a)
       IN  IF ~a.next THEN Reply(p, r, Plain(a.status, a.error))
           ELSE GetUserHandler(p, r, "")

HttpCreateUser(p) ==
  /\ p \in procs /\ pc[p] = "idle"
  /\ \E h \in HeaderInputs(now, held) :
       LET a == Auth(h, jwtSecret, now)
           r == Request("POST /users", h, a)
       IN  IF ~a.next THEN Reply(p, r, Plain(a.status, a.error))
           ELSE \E b \in RegisterBodies : RegisterHandler(p, r, "CreateUser", b)

\* c.DefaultQuery then strconv.Atoi with the error dropped
QueryInt(q, def) == IF q.present THEN Atoi(q.val).n ELSE Atoi(def).n

HttpListUsers(p) ==
  /\ p \in procs /\ pc[p] = "idle"
  /\ \E h \in HeaderInputs(now, held) :
       LET a == Auth(h, jwtSecret, now)
           r == Request("GET /users", h, a)
       IN  IF ~a.next THEN Reply(p, r, Plain(a.status, a.error))
           ELSE \E pq \in PageQueries, lq \in LimitQueries :
                  /\ BeginList(p, QueryInt(pq, "1"), QueryInt(lq, "10"))
                  /\ Serving(p, r)

HttpGetUser(p) ==
  /\ p \in procs /\ pc[p] = "idle"
  /\ \E h \in HeaderInputs(now, held) :
       LET a == Auth(h, jwtSecret, now)
           r == Request("GET /users/:id", h, a)
       IN  IF ~a.next THEN Reply(p, r, Plain(a.status, a.error))
           ELSE \E param \in IdParams : GetUserHandler(p, r, param)

\* user_handler.go: UpdateUser
UpdateUserHandler(p, r, param, b) ==
  IF ~parseUint(param).ok THEN Reply(p, r, Plain(400, "invalid id"))
  ELSE IF ~b.valid THEN Reply(p, r, Plain(400, "invalid body"))
  ELSE /\ BeginUpdate(p, parseUint(param).n, b.hasName, b.name,
                      b.hasEmail, b.email, b.hasPassword, b.password)
       /\ Serving(p, r)

HttpUpdateUser(p) ==
  /\ p \in procs /\ pc[p] = "idle"
  /\ \E h \in HeaderInputs(now, held) :
       LET a == Auth(h, jwtSecret, now)
           r == Request("PUT /users/:id", h, a)
       IN  IF ~a.next THEN Reply(p, r, Plain(a.status, a.error))
           ELSE \E param \in IdParams, b \in UpdateBodies : UpdateUserHandler(p, r, param, b)

\* user_handler.go: DeleteUser
DeleteUserHandler(p, r, param) ==
  IF ~parseUint(param).ok THEN Reply(p, r, Plain(400, "invalid id"))
  ELSE BeginDelete(p, parseUint(param).n) /\ Serving(p, r)

HttpDeleteUser(p) ==
  /\ p \in procs /\ pc[p] = "idle"
  /\ \E h \in HeaderInputs(now, held) :
       LET a == Auth(h, jwtSecret, now)
           r == Request("DELETE /users/:id", h, a)
       IN  IF ~a.next THEN Reply(p, r, Plain(a.status, a.error))
           ELSE \E param \in IdParams : DeleteUserHandler(p, r, param)

\* a route whose handler panics (GET /boom of TestRecovery_PanicReturns500)
\* behind the Recovery middleware; a recovered panic is logged
HttpBoom(p) ==
  /\ p \in procs /\ pc[p] = "idle"
  /\ panics < MaxPanics
  /\ pc' = [pc EXCEPT ![p] = "responded"]
  /\ req' = [req EXCEPT ![p] = Public("GET /boom")]
  /\ resp' = [resp EXCEPT ![p] = Recovery(Panic)]
  /\ panics' = IF Recovery(Panic).panicked THEN panics ELSE panics + 1
  /\ UNCHANGED <<rlog, pure, procs, rdb, faults, forged, now, held, store, nextID, cache, logLen,
                 call, loc, trace, result>>

\* Login answering 400 like the other handlers
HandlerReply_LoginBadRequest(rt, r) ==
  CASE rt \in {"POST /auth/register", "POST /users"} ->
         IF r.err # ErrNone THEN Plain(400, r.err)
         ELSE Resp(201, "", Marshal(r.user), NoToken, NoPaged)
    [] rt = "POST /auth/login" ->
         IF r.err # ErrNone THEN Plain(400, r.err)
         ELSE Resp(200, "", NoJSON, r.token, NoPaged)
    [] rt \in {"GET /me", "GET /users/:id"} ->
         IF r.err # ErrNone THEN Plain(404, "user not found")
         ELSE Resp(200, "", Marshal(r.user), NoToken, NoPaged)
    [] rt = "PUT /users/:id" ->
         IF r.err # ErrNone THEN Plain(400, r.err)
         ELSE Resp(200, "", Marshal(r.user), NoToken, NoPaged)
    [] rt = "DELETE /users/:id" ->
         IF r.err # ErrNone THEN Plain(404, "user not found")
         ELSE Plain(204, "")
    [] OTHER ->
         IF r.err # ErrNone THEN Plain(500, r.err)
         ELSE Resp(200, "", NoJSON, NoToken, r.paged)

\* what each handler writes once the service has returned r
HandlerReply(rt, r) ==
  CASE rt \in {"POST /auth/register", "POST /users"} ->
         IF r.err # ErrNone THEN Plain(400, r.err)
         ELSE Resp(201, "", Marshal(r.user), NoToken, NoPaged)
    [] rt = "POST /auth/login" ->
         IF r.err # ErrNone THEN Plain(401, r.err)
         ELSE Resp(200, "", NoJSON, r.token, NoPaged)
    [] rt \in {"GET /me", "GET /users/:id"} ->
         IF r.err # ErrNone THEN Plain(404, "user not found")
         ELSE Resp(200, "", Marshal(r.user), NoToken, NoPaged)
    [] rt = "PUT /users/:id" ->
         IF r.err # ErrNone THEN Plain(400, r.err)
         ELSE Resp(200, "", Marshal(r.user), NoToken, NoPaged)
    [] rt = "DELETE /users/:id" ->
         IF r.err # ErrNone THEN Plain(404, "user not found")
         ELSE Plain(204, "")
    [] OTHER ->
         IF r.err # ErrNone THEN Plain(500, r.err)
         ELSE Resp(200, "", NoJSON, NoToken, r.paged)

\* the service call returns into the handler, which writes the response;
\* the client keeps the token of a successful login
HttpRespond(p) ==
  /\ p \in procs /\ pc[p] = "done" /\ req[p].route # ""
  /\ pc' = [pc EXCEPT ![p] = "responded"]
  /\ resp' = [resp EXCEPT ![p] = Recovery(HandlerReply(req[p].route, result[p]))]
  /\ held' = IF req[p].route = "POST /auth/login" /\ result[p].err = ErrNone
             THEN result[p].token ELSE held
  /\ call' = [call EXCEPT ![p] = NoCall]
  /\ loc' = [loc EXCEPT ![p] = ZeroUser]
  /\ trace' = [trace EXCEPT ![p] = <<>>]
  /\ result' = [result EXCEPT ![p] = NoResult]
  /\ UNCHANGED <<rlog, pure, procs, rdb, faults, forged, now, panics, req, store, nextID, cache, logLen>>

\* the client has read the response
HttpClose(p) ==
  /\ p \in procs /\ pc[p] = "responded"
  /\ pc' = [pc EXCEPT ![p] = "idle"]
  /\ req' = [req EXCEPT ![p] = NoReq]
  /\ resp' = [resp EXCEPT ![p] = NoResp]
  /\ UNCHANGED <<rlog, pure, procs, rdb, faults, forged, now, held, panics, store, nextID, cache, logLen,
                 call, loc, trace, result>>

InitHTTP ==
  /\ procs = {1}
  /\ rdb = TRUE
  /\ store = {}
  /\ nextID = 1
  /\ cache = [k \in Keys |-> NoEntry]
  /\ logLen = 0
  /\ pc = [p \in AllProcs |-> "idle"]
  /\ call = [p \in AllProcs |-> NoCall]
  /\ loc = [p \in AllProcs |-> ZeroUser]
  /\ trace = [p \in AllProcs |-> <<>>]
  /\ result = [p \in AllProcs |-> NoResult]
  /\ faults = FALSE
  /\ forged = TRUE
  /\ now = 0
  /\ held = NoToken
  /\ panics = 0
  /\ req = [p \in AllProcs |-> NoReq]
  /\ resp = [p \in AllProcs |-> NoResp]
  /\ pure = NoPure
  /\ rlog = NoLog

Client(p) ==
  \/ HttpRegister(p)
  \/ HttpLogin(p)
  \/ HttpMe(p)
  \/ HttpCreateUser(p)
  \/ HttpListUsers(p)
  \/ HttpGetUser(p)
  \/ HttpUpdateUser(p)
  \/ HttpDeleteUser(p)
  \/ HttpBoom(p)
  \/ RegisterSteps(p)
  \/ Login(p)
  \/ GetSteps(p)
  \/ UpdateSteps(p)
  \/ DeleteSteps(p)
  \/ ListUsers(p)
  \/ HttpRespond(p)
  \/ HttpClose(p)

NextHTTP ==
  \/ \E p \in AllProcs : Client(p)
  \/ \E k \in Keys : CacheExpire(k)

SpecHTTP == InitHTTP /\ [][NextHTTP]_vars

\* ------------------------------------------------------------ a session
\* One client that registers, logs in and then uses the token it was given
\* while time passes and users are updated and deleted.
InitSession ==
  /\ procs = {1}
  /\ rdb = TRUE
  /\ store = {}
  /\ nextID = 1
  /\ cache = [k \in Keys |-> NoEntry]
  /\ logLen = 0
  /\ pc = [p \in AllProcs |-> "idle"]
  /\ call = [p \in AllProcs |-> NoCall]
  /\ loc = [p \in AllProcs |-> ZeroUser]
  /\ trace = [p \in AllProcs |-> <<>>]
  /\ result = [p \in AllProcs |-> NoResult]
  /\ faults = FALSE
  /\ forged = FALSE
  /\ now = 0
  /\ held = NoToken
  /\ panics = 0
  /\ req = [p \in AllProcs |-> NoReq]
  /\ resp = [p \in AllProcs |-> NoResp]
  /\ pure = NoPure
  /\ rlog = NoLog

Session(p) ==
  \/ HttpRegister(p)
  \/ HttpLogin(p)
  \/ HttpGetUser(p)
  \/ HttpUpdateUser(p)
  \/ HttpDeleteUser(p)
  \/ RegisterSteps(p)
  \/ Login(p)
  \/ GetSteps(p)
  \/ UpdateSteps(p)
  \/ DeleteSteps(p)
  \/ HttpRespond(p)
  \/ HttpClose(p)

NextSession == (\E p \in AllProcs : Session(p)) \/ Tick

SpecSession == InitSession /\ [][NextSession]_vars

\* ------------------------------------------------------------ handlers over a failing store
\* One client of the register, login and get-user routes while store and
\* cache round trips may fail.
InitHandlers ==
  /\ procs = {1}
  /\ rdb = TRUE
  /\ store = {}
  /\ nextID = 1
  /\ cache = [k \in Keys |-> NoEntry]
  /\ logLen = 0
  /\ pc = [p \in AllProcs |-> "idle"]
  /\ call = [p \in AllProcs |-> NoCall]
  /\ loc = [p \in AllProcs |-> ZeroUser]
  /\ trace = [p \in AllProcs |-> <<>>]
  /\ result = [p \in AllProcs |-> NoResult]
  /\ faults = TRUE
  /\ forged = FALSE
  /\ now = 0
  /\ held = NoToken
  /\ panics = 0
  /\ req = [p \in AllProcs |-> NoReq]
  /\ resp = [p \in AllProcs |-> NoResp]
  /\ pure = NoPure
  /\ rlog = NoLog

Handlers(p) ==
  \/ HttpRegister(p)
  \/ HttpLogin(p)
  \/ HttpGetUser(p)
  \/ RegisterSteps(p)
  \/ Login(p)
  \/ GetSteps(p)
  \/ HttpRespond(p)
  \/ HttpClose(p)

NextHandlers == \E p \in AllProcs : Handlers(p)

SpecHandlers == InitHandlers /\ [][NextHandlers]_vars

\* ============================================================ functions on their own
\* the idle service around a function that is called on its own
Idle ==
  /\ procs = {}
  /\ rdb = TRUE
  /\ store = {}
  /\ nextID = 1
  /\ cache = [k \in Keys |-> NoEntry]
  /\ logLen = 0
  /\ pc = [p \in AllProcs |-> "idle"]
  /\ call = [p \in AllProcs |-> NoCall]
  /\ loc = [p \in AllProcs |-> ZeroUser]
  /\ trace = [p \in AllProcs |-> <<>>]
  /\ result = [p \in AllProcs |-> NoResult]
  /\ faults = FALSE
  /\ forged = FALSE
  /\ now = 0
  /\ held = NoToken
  /\ panics = 0
  /\ req = [p \in AllProcs |-> NoReq]
  /\ resp = [p \in AllProcs |-> NoResp]

Service_vars == <<procs, rdb, store, nextID, cache, logLen, pc, call, loc, trace, result,
                  faults, forged, now, held, panics, req, resp>>

\* ------------------------------------------------------------ NormalizeName
NameBytes == {" ", "a", "H", "C3", "A9"}

\* a name arrives through encoding/json and is therefore valid UTF-8
RECURSIVE WellFormed(_)
WellFormed(s) ==
  \/ s = <<>>
  \/ Head(s) \in Ascii /\ WellFormed(Tail(s))
  \/ Head(s) = "C3" /\ Len(s) >= 2 /\ s[2] \in Continuation /\ WellFormed(Tail(Tail(s)))

NameTexts ==
  { s \in UNION { [1..n -> NameBytes] : n \in 0..MaxNameLen } : WellFormed(s) }

InitNormalize ==
  /\ Idle
  /\ rlog = NoLog
  /\ pure \in { [fn |-> "NormalizeName", in |-> s, out |-> <<>>, done |-> FALSE] :
                 s \in NameTexts }

Normalize ==
  /\ pure.fn = "NormalizeName" /\ ~pure.done
  /\ pure' = [pure EXCEPT !.out = NormalizeName(pure.in), !.done = TRUE]
  /\ UNCHANGED <<Service_vars, rlog>>

NextNormalize == Normalize

SpecNormalize == InitNormalize /\ [][NextNormalize]_vars

\* ------------------------------------------------------------ HashPassword, CheckPassword
\* passwords around the length bcrypt reads: a padding of 0, 1, 71 or 72
\* bytes followed by up to MaxSuffix bytes
PadLens == {0, 1, MaxPasswordBytes - 1, MaxPasswordBytes}

Suffixes == UNION { [1..n -> {"x", "y"}] : n \in 0..MaxSuffix }

PasswordTexts == { Pad(n) \o t : n \in PadLens, t \in Suffixes }

InitHash ==
  /\ Idle
  /\ rlog = NoLog
  /\ pure \in { [fn |-> "HashPassword", p |-> p, q |-> q, hash |-> NoHash,
                  err |-> ErrNone, ok |-> FALSE, stage |-> "start"] :
                 p \in PasswordTexts, q \in PasswordTexts }

\* hash, err := HashPassword(p)
Hash ==
  /\ pure.fn = "HashPassword" /\ pure.stage = "start"
  /\ pure' = [pure EXCEPT !.hash = HashPassword(pure.p).hash,
                           !.err = HashPassword(pure.p).err,
                           !.stage = IF HashPassword(pure.p).err = ErrNone
                                     THEN "hashed" ELSE "failed"]
  /\ UNCHANGED <<Service_vars, rlog>>

\* ok := CheckPassword(hash, q)
Check ==
  /\ pure.fn = "HashPassword" /\ pure.stage = "hashed"
  /\ pure' = [pure EXCEPT !.ok = CheckPassword(pure.hash, pure.q), !.stage = "checked"]
  /\ UNCHANGED <<Service_vars, rlog>>

NextHash == Hash \/ Check

SpecHash == InitHash /\ [][NextHash]_vars

\* ------------------------------------------------------------ redislog.Logger
\* A logger made by redislog.New(rdb, key, max, retention) and the list at
\* its key.  rlog.list is the list, newest entry first; rlog.ttl tells
\* whether the key has an expiry; rlog.all holds every entry a call was made
\* for and rlog.hist the entries pushed since the key last expired, both
\* newest first; rlog.failed tells whether LPUSH or LTRIM of the call in
\* progress failed.
LoggerMaxes == {0 - 1, 0, 1, LogMax}

\* LTRIM key start stop on a list given newest first: indices count from 0,
\* a negative index counts from the end, and an empty range leaves nothing
LTrim_KeepsOneMore(list, start, stop) ==
  LET n  == Len(list)
      lo == IF start < 0 THEN (IF n + start < 0 THEN 0 ELSE n + start) ELSE start
      hi == IF stop + 1 < 0 THEN n + stop + 1 ELSE (IF stop + 1 >= n THEN n - 1 ELSE stop + 1)
  IN  IF lo > hi \/ lo >= n THEN <<>> ELSE SubSeq(list, lo + 1, hi + 1)

LTrim(list, start, stop) ==
  LET n  == Len(list)
      lo == IF start < 0 THEN (IF n + start < 0 THEN 0 ELSE n + start) ELSE start
      hi == IF stop < 0 THEN n + stop ELSE (IF stop >= n THEN n - 1 ELSE stop)
  IN  IF lo > hi \/ lo >= n THEN <<>> ELSE SubSeq(list, lo + 1, hi + 1)

InitLog ==
  /\ Idle
  /\ pure = NoPure
  /\ rlog \in { [NoLog EXCEPT !.client = c, !.max = m, !.retention = r, !.pcl = "idle"] :
                 c \in BOOLEAN, m \in LoggerMaxes, r \in BOOLEAN }

\* Logger.log up to its first command: a nil client makes the call a no-op
log(level) ==
  [rlog EXCEPT !.entry = [level |-> level, seq |-> rlog.n + 1],
               !.n = rlog.n + 1,
               !.all = <<[level |-> level, seq |-> rlog.n + 1]>> \o rlog.all,
               !.failed = FALSE,
               !.pcl = IF rlog.client THEN "push" ELSE "done"]

Info ==
  /\ rlog.pcl = "idle" /\ rlog.n < MaxLogs
  /\ rlog' = log("info")
  /\ UNCHANGED <<Service_vars, pure>>

Warn ==
  /\ rlog.pcl = "idle" /\ rlog.n < MaxLogs
  /\ rlog' = log("warn")
  /\ UNCHANGED <<Service_vars, pure>>

Error ==
  /\ rlog.pcl = "idle" /\ rlog.n < MaxLogs
  /\ rlog' = log("error")
  /\ UNCHANGED <<Service_vars, pure>>

\* line 46: LPUSH, its error dropped
LPush ==
  /\ rlog.pcl = "push"
  /\ \E fail \in BOOLEAN :
       rlog' = [rlog EXCEPT !.list = IF fail THEN rlog.list ELSE <<rlog.entry>> \o rlog.list,
                            !.hist = IF fail THEN rlog.hist ELSE <<rlog.entry>> \o rlog.hist,
                            !.failed = fail,
                            !.pcl = "trim"]
  /\ UNCHANGED <<Service_vars, pure>>

\* line 47: LTRIM 0 max-1, its error dropped; a list left empty is no key
LTrimList ==
  /\ rlog.pcl = "trim"
  /\ \E fail \in BOOLEAN :
       LET l == IF fail THEN rlog.list ELSE LTrim(rlog.list, 0, rlog.max - 1)
       IN  rlog' = [rlog EXCEPT !.list = l,
                                !.ttl = rlog.ttl /\ l # <<>>,
                                !.failed = rlog.failed \/ fail,
                                !.pcl = IF rlog.retention THEN "expire" ELSE "done"]
  /\ UNCHANGED <<Service_vars, pure>>

\* lines 48-50: EXPIRE when a retention was given, its error dropped
Expire ==
  /\ rlog.pcl = "expire"
  /\ \E fail \in BOOLEAN :
       rlog' = [rlog EXCEPT !.ttl = IF fail THEN rlog.ttl ELSE rlog.list # <<>>,
                            !.pcl = "done"]
  /\ UNCHANGED <<Service_vars, pure>>

LogReturn ==
  /\ rlog.pcl = "done"
  /\ rlog' = [rlog EXCEPT !.pcl = "idle"]
  /\ UNCHANGED <<Service_vars, pure>>

\* the retention has passed since the last EXPIRE: Redis removes the key
\* (a retention is days long, so this happens between calls)
KeyExpire ==
  /\ rlog.pcl = "idle" /\ rlog.ttl
  /\ rlog' = [rlog EXCEPT !.list = <<>>, !.hist = <<>>, !.ttl = FALSE]
  /\ UNCHANGED <<Service_vars, pure>>

NextLog == Info \/ Warn \/ Error \/ LPush \/ LTrimList \/ Expire \/ LogReturn \/ KeyExpire

SpecLog == InitLog /\ [][NextLog]_vars

\* ============================================================ properties
Done(p) == p \in procs /\ pc[p] = "done"

IsRegister(p) == call[p].op \in {"Register", "CreateUser"}
IsGet(p)      == call[p].op \in {"GetByID", "GetUser"}

OpsOf(t) == [i \in 1..Len(t) |-> t[i].op]

Last(t) == t[Len(t)]

Fail(err) == Res(err, ZeroUser, NoToken, NoPaged)

\* C1: a Register whose FindByEmail returns a user ends at once with
\* "email already exists"; it calls neither Create nor a cache Set, and the
\* step leaves the table, its id counter and the cache as they were.
C1_RegisterEmailExists ==
  [][\A p \in AllProcs :
       (/\ pc[p] = "reg_find" /\ pc'[p] # "reg_find"
        /\ Last(trace'[p]).err = ErrNone)
       => /\ pc'[p] = "done"
          /\ result'[p] = Fail(ErrEmailExists)
          /\ OpsOf(trace'[p]) = <<"FindByEmail">>
          /\ store' = store /\ nextID' = nextID /\ cache' = cache]_vars

C1_Witness ==
  \E p \in AllProcs :
    /\ Done(p) /\ IsRegister(p) /\ rdb
    /\ result[p].err = ErrEmailExists
    /\ trace[p][1].user.Email = call[p].email

\* C2: a successful Register with a cache configured returns the user named
\* NormalizeName(input name) carrying the id Create assigned, and made
\* exactly one cache Set, after the insert, at user:<id> with a TTL of 10
\* minutes and the created user's JSON as value.
C2_RegisterSuccessCaches ==
  \A p \in AllProcs :
    (Done(p) /\ IsRegister(p) /\ rdb /\ result[p].err = ErrNone)
    => LET t == trace[p]
           u == result[p].user
       IN  /\ OpsOf(t) = <<"FindByEmail", "Create", "Set">>
           /\ u.Name = NormalizeName(call[p].name)
           /\ u.Email = call[p].email
           /\ t[2].err = ErrNone
           /\ u.ID = t[2].user.ID /\ u.ID \in 1..MaxId
           /\ t[3].key = cacheKeyUser(u.ID)
           /\ t[3].ttl = userCacheTTL
           /\ t[3].val = Marshal(u)
           /\ Unmarshal(t[3].val).user = [u EXCEPT !.Password = NoHash]

C2_Witness ==
  \E p \in AllProcs :
    /\ Done(p) /\ IsRegister(p) /\ rdb /\ result[p].err = ErrNone
    /\ call[p].name # result[p].user.Name
    /\ cache[cacheKeyUser(result[p].user.ID)] =
         [present |-> TRUE, val |-> Marshal(result[p].user), ttl |-> userCacheTTL]

\* C3: Login answers with the one value ("", "invalid credentials") when the
\* email has no row, when the lookup fails for another reason and when the
\* password does not match the stored hash.
LoginUnknownEmail(p)  == trace[p][1].err = ErrRecordNotFound
LoginLookupFailed(p)  == trace[p][1].err = ErrDB
LoginWrongPassword(p) ==
  /\ trace[p][1].err = ErrNone
  /\ trace[p][1].user.Password # HashPassword(call[p].password).hash

C3_LoginFailuresIdentical ==
  \A p \in AllProcs :
    (/\ Done(p) /\ call[p].op = "Login"
     /\ (LoginUnknownEmail(p) \/ LoginLookupFailed(p) \/ LoginWrongPassword(p)))
    => /\ result[p].err = ErrInvalidCreds
       /\ result[p].token = NoToken
       /\ result[p] = Fail(ErrInvalidCreds)

C3_Witness ==
  \E p \in AllProcs :
    /\ Done(p) /\ call[p].op = "Login" /\ LoginWrongPassword(p)
    /\ result[p].err = ErrInvalidCreds

\* C4: GetByID with a cache: a decodable entry at user:<id> is returned
\* without any store call; on a miss there is exactly one FindByID(id) and,
\* when it succeeds, one Set at user:<id> with TTL 10 and the fetched user.
C4_GetByIDCacheAside ==
  \A p \in AllProcs :
    (Done(p) /\ IsGet(p) /\ rdb)
    => LET t == trace[p]
           k == cacheKeyUser(call[p].id)
       IN  /\ t[1].op = "Get" /\ t[1].key = k
           /\ (t[1].err = ErrNone /\ Unmarshal(t[1].val).ok)
                => /\ OpsOf(t) = <<"Get">>
                   /\ result[p] = Res(ErrNone, Unmarshal(t[1].val).user, NoToken, NoPaged)
           /\ (t[1].err = ErrRedisNil)
                => /\ Len(t) >= 2 /\ t[2].op = "FindByID" /\ t[2].key = k
                   /\ IF t[2].err = ErrNone
                      THEN /\ OpsOf(t) = <<"Get", "FindByID", "Set">>
                           /\ t[3].key = k /\ t[3].ttl = userCacheTTL
                           /\ t[3].val = Marshal(t[2].user)
                           /\ t[2].user.ID = call[p].id
                      ELSE OpsOf(t) = <<"Get", "FindByID">>

C4_WitnessHit ==
  \E p \in AllProcs :
    /\ Done(p) /\ IsGet(p) /\ rdb
    /\ trace[p][1].err = ErrNone /\ Unmarshal(trace[p][1].val).ok
    /\ result[p].user.ID = call[p].id

C4_Witness ==
  \E p \in AllProcs :
    /\ Done(p) /\ IsGet(p) /\ rdb
    /\ trace[p][1].err = ErrRedisNil
    /\ Len(trace[p]) = 3 /\ trace[p][3].err = ErrNone
    /\ cache[cacheKeyUser(call[p].id)].val = Marshal(result[p].user)

\* C5: a failing cache Get, or a cached value that does not decode, never
\* becomes an error of GetByID: the call goes on to the store and returns
\* exactly what FindByID(id) returned.
CacheGetBroken(p) ==
  \/ trace[p][1].err = ErrRedis
  \/ trace[p][1].err = ErrNone /\ ~Unmarshal(trace[p][1].val).ok

C5_GetByIDCacheErrorFallsThrough ==
  \A p \in AllProcs :
    (Done(p) /\ IsGet(p) /\ rdb /\ CacheGetBroken(p))
    => LET t == trace[p]
       IN  /\ Len(t) >= 2 /\ t[2].op = "FindByID"
           /\ t[2].key = cacheKeyUser(call[p].id)
           /\ result[p].err = t[2].err
           /\ result[p].user = t[2].user
           /\ result[p].err \in {ErrNone, ErrRecordNotFound, ErrDB}

C5_Witness ==
  \E p \in AllProcs :
    /\ Done(p) /\ IsGet(p) /\ rdb
    /\ trace[p][1].err = ErrNone /\ trace[p][1].val = Garbage
    /\ result[p].err = ErrNone /\ result[p].user.ID = call[p].id

C5_WitnessGetError ==
  \E p \in AllProcs :
    /\ Done(p) /\ IsGet(p) /\ rdb
    /\ trace[p][1].err = ErrRedis
    /\ result[p].err = ErrRecordNotFound

\* C6: once the store operation of Register, GetByID, UpdateUser or
\* DeleteUser has succeeded, the call returns success with the user that
\* operation produced, whatever the cache Set and Del calls after it answer.
StoreEvent(p, i) ==
  /\ i \in 1..Len(trace[p])
  /\ trace[p][i].err = ErrNone
  /\ \/ IsRegister(p) /\ trace[p][i].op = "Create"
     \/ IsGet(p) /\ trace[p][i].op = "FindByID"
     \/ call[p].op = "UpdateUser" /\ trace[p][i].op = "Update"
     \/ call[p].op = "DeleteUser" /\ trace[p][i].op = "Delete"

CacheWriteFailedAfter(p, i) ==
  \E j \in (i + 1)..Len(trace[p]) :
    trace[p][j].op \in {"Set", "Del"} /\ trace[p][j].err = ErrRedis

C6_CacheFailureNeverFatal ==
  \A p \in AllProcs : \A i \in 1..Len(trace[p]) :
    (Done(p) /\ StoreEvent(p, i))
    => /\ result[p] = Res(ErrNone, trace[p][i].user, NoToken, NoPaged)
       /\ call[p].op = "DeleteUser" => result[p].user = ZeroUser
       /\ call[p].op # "DeleteUser" => result[p].user.ID \in 1..MaxId

C6_Witness ==
  \E p \in AllProcs : \E i \in 1..Len(trace[p]) :
    /\ Done(p) /\ StoreEvent(p, i) /\ CacheWriteFailedAfter(p, i)
    /\ call[p].op = "UpdateUser"
    /\ result[p].err = ErrNone

\* C7: an UpdateUser whose new email differs from the current one and is
\* found in the store by FindByEmail fails with "email already exists"
\* without calling Update; no step of the call up to there changes the table
\* or the cache, also when the request carries a name or a password.
C7_UpdateEmailConflict ==
  [][\A p \in AllProcs :
       /\ (pc[p] \in {"upd_find", "upd_email"} /\ pc'[p] # pc[p])
            => (store' = store /\ cache' = cache /\ nextID' = nextID)
       /\ (/\ pc[p] = "upd_email" /\ pc'[p] # "upd_email"
           /\ Last(trace'[p]).err = ErrNone)
            => /\ pc'[p] = "done"
               /\ result'[p] = Fail(ErrEmailExists)
               /\ OpsOf(trace'[p]) = <<"FindByID", "FindByEmail">>]_vars

C7_Witness ==
  \E p \in AllProcs :
    /\ Done(p) /\ call[p].op = "UpdateUser" /\ rdb
    /\ call[p].hasName /\ call[p].hasPassword /\ call[p].hasEmail
    /\ result[p].err = ErrEmailExists
    /\ trace[p][1].user.Name # NormalizeName(call[p].name)
    /\ trace[p][1].user \in store
    /\ cache[cacheKeyUser(call[p].id)].val = Marshal(trace[p][1].user)

\* C8: an UpdateUser carrying only a name writes to the store the loaded
\* record with its name replaced by NormalizeName(name), email and password
\* hash as loaded; with a cache it then issues Del user:<id> and after it
\* Set user:<id> (TTL 10, the updated user), and returns the updated user.
OnlyName(p) ==
  /\ call[p].op = "UpdateUser"
  /\ call[p].hasName /\ ~call[p].hasEmail /\ ~call[p].hasPassword

C8_UpdateOnlyName ==
  [][\A p \in AllProcs :
       /\ (OnlyName(p) /\ pc[p] = "upd_save" /\ pc'[p] # "upd_save"
           /\ Last(trace'[p]).err = ErrNone)
            => LET old == trace[p][1].user
                   new == [old EXCEPT !.Name = NormalizeName(call[p].name)]
               IN  /\ new \in store'
                   /\ RowsByID(store', call[p].id) = {new}
                   /\ new.Email = old.Email /\ new.Password = old.Password
       /\ (OnlyName(p) /\ rdb /\ pc[p] # "done" /\ pc'[p] = "done"
           /\ result'[p].err = ErrNone)
            => LET t == trace'[p]
                   old == t[1].user
                   new == [old EXCEPT !.Name = NormalizeName(call[p].name)]
                   k == cacheKeyUser(call[p].id)
               IN  /\ OpsOf(t) = <<"FindByID", "Update", "Del", "Set">>
                   /\ t[2].user = new
                   /\ t[3].key = k
                   /\ t[4].key = k /\ t[4].ttl = userCacheTTL /\ t[4].val = Marshal(new)
                   /\ result'[p].user = new]_vars

C8_Witness ==
  \E p \in AllProcs :
    /\ Done(p) /\ OnlyName(p) /\ rdb /\ result[p].err = ErrNone
    /\ trace[p][1].user.Name # result[p].user.Name
    /\ call[p].name # result[p].user.Name
    /\ result[p].user \in store
    /\ cache[cacheKeyUser(call[p].id)].val = Marshal(result[p].user)

\* C9: DeleteUser of an id without a row fails with the store's "record not
\* found" and issues no cache Del; DeleteUser of an id with a row removes
\* that row, then issues Del user:<id>, and returns success.
C9_DeleteUser ==
  [][\A p \in AllProcs :
       /\ (pc[p] = "del_db" /\ pc'[p] # "del_db" /\ RowsByID(store, call[p].id) = {}
           /\ Last(trace'[p]).err # ErrDB)
            => /\ pc'[p] = "done"
               /\ result'[p] = Fail(ErrRecordNotFound)
               /\ OpsOf(trace'[p]) = <<"Delete">>
               /\ store' = store /\ cache' = cache
       /\ (pc[p] = "del_db" /\ pc'[p] # "del_db" /\ RowsByID(store, call[p].id) # {}
           /\ Last(trace'[p]).err # ErrDB)
            => /\ store' = store \ RowsByID(store, call[p].id)
               /\ RowsByID(store', call[p].id) = {}
               /\ rdb => pc'[p] = "del_cache"
       /\ (pc[p] = "del_cache" /\ pc'[p] # "del_cache")
            => /\ pc'[p] = "done"
               /\ result'[p] = Res(ErrNone, ZeroUser, NoToken, NoPaged)
               /\ OpsOf(trace'[p]) = <<"Delete", "Del">>
               /\ trace'[p][2].key = cacheKeyUser(call[p].id)
               /\ trace'[p][2].err = ErrNone => ~cache'[cacheKeyUser(call[p].id)].present]_vars

C9_Witness ==
  \E p \in AllProcs :
    /\ Done(p) /\ call[p].op = "DeleteUser" /\ rdb
    /\ result[p].err = ErrNone
    /\ OpsOf(trace[p]) = <<"Delete", "Del">>
    /\ RowsByID(store, call[p].id) = {}
    /\ ~cache[cacheKeyUser(call[p].id)].present

C9_WitnessNotFound ==
  \E p \in AllProcs :
    /\ Done(p) /\ call[p].op = "DeleteUser" /\ rdb
    /\ result[p].err = ErrRecordNotFound
    /\ cache[cacheKeyUser(call[p].id)].present

\* C10: for every page and limit ListUsers calls List exactly once with
\* limit' = (limit if 1 <= limit <= 100, else 10) and
\* offset = (max(page, 1) - 1) * limit', and the envelope carries page',
\* limit' and the store's items and total.
PageOf(p)  == IF call[p].page >= 1 THEN call[p].page ELSE 1
LimitOf(p) == IF 1 <= call[p].limit /\ call[p].limit <= 100 THEN call[p].limit ELSE 10

C10_ListUsersClamp ==
  \A p \in AllProcs :
    (Done(p) /\ call[p].op = "ListUsers")
    => /\ OpsOf(trace[p]) = <<"List">>
       /\ trace[p][1].limit = LimitOf(p)
       /\ trace[p][1].offset = (PageOf(p) - 1) * LimitOf(p)
       /\ result[p].err = ErrNone
            => /\ result[p].paged.Page = PageOf(p)
               /\ result[p].paged.Limit = LimitOf(p)
               /\ result[p].paged.Total = Cardinality(store)
               /\ result[p].paged.Items =
                    List(store, trace[p][1].offset, trace[p][1].limit, FALSE).items

\* C11: a Register or an email-changing UpdateUser whose pre-check passed
\* and whose insert or update the unique index then rejects returns "email
\* already exists", the condition the pre-check reports.
C11_LateConflictIsEmailExists ==
  \A p \in AllProcs :
    (/\ Done(p) /\ call[p].op \in {"Register", "CreateUser", "UpdateUser"}
     /\ Last(trace[p]).op \in {"Create", "Update"}
     /\ Last(trace[p]).err = ErrDuplicate)
    => result[p].err = ErrEmailExists

\* C12: whatever the interleaving of Register, UpdateUser, DeleteUser and
\* GetByID calls, no two rows of the store carry the same email.
C12_EmailUnique ==
  \A r1 \in store : \A r2 \in store : r1.Email = r2.Email => r1 = r2

C12_Witness ==
  \E p \in AllProcs : \E q \in AllProcs :
    /\ p # q /\ Done(p) /\ Done(q)
    /\ IsRegister(p) /\ call[q].op = "UpdateUser"
    /\ call[p].email = call[q].email
    /\ trace[p][1].err = ErrRecordNotFound
    /\ Len(trace[q]) >= 3
    /\ trace[q][2].op = "FindByEmail" /\ trace[q][2].err = ErrRecordNotFound
    /\ Last(trace[p]).op = "Create" /\ Last(trace[p]).err = ErrDuplicate
    /\ result[q].err = ErrNone
    /\ \E r \in store : r.ID = call[q].id /\ r.Email = call[p].email

\* C13: a step of Register, UpdateUser or DeleteUser changes the store or
\* the user cache only through a store or cache call that succeeded, and a
\* call that returns an error has made no such call: store, id counter and
\* cache are as the call found them.
Mutating(e) == e.err = ErrNone /\ e.op \in {"Create", "Update", "Delete", "Set", "Del"}

C13_ErrorLeavesNoTrace ==
  [][\A p \in AllProcs :
       (/\ call[p].op \in {"Register", "CreateUser", "UpdateUser", "DeleteUser"}
        /\ pc'[p] # pc[p])
       => /\ (store' # store \/ cache' # cache \/ nextID' # nextID)
               => (Len(trace'[p]) = Len(trace[p]) + 1 /\ Mutating(Last(trace'[p])))
          /\ (pc'[p] = "done" /\ result'[p].err # ErrNone)
               => /\ store' = store /\ cache' = cache /\ nextID' = nextID
                  /\ \A i \in 1..Len(trace'[p]) : ~Mutating(trace'[p][i])]_vars

C13_Witness ==
  \E p \in AllProcs :
    /\ Done(p) /\ call[p].op = "UpdateUser" /\ rdb
    /\ call[p].hasName /\ call[p].hasEmail /\ call[p].hasPassword
    /\ Last(trace[p]).op = "Update" /\ result[p].err = ErrDB
    /\ trace[p][1].user \in store
    /\ Last(trace[p]).user # trace[p][1].user
    /\ cache[cacheKeyUser(call[p].id)].val = Marshal(trace[p][1].user)

\* C14: once DeleteUser(id) has returned success the store holds no row
\* with that id, also when an UpdateUser(id) that loaded the row before the
\* delete writes after it.  (The claim's other half, that no later
\* GetByID(id) returns the user, is C14_NoCachedCopy.)
C14_DeletedStaysDeleted ==
  \A p \in AllProcs :
    (Done(p) /\ call[p].op = "DeleteUser" /\ result[p].err = ErrNone)
    => RowsByID(store, call[p].id) = {}

\* after a successful DeleteUser(id) the cache holds no entry that a later
\* GetByID(id) would return
C14_NoCachedCopy ==
  \A p \in AllProcs :
    (Done(p) /\ call[p].op = "DeleteUser" /\ result[p].err = ErrNone)
    => ~CacheHit(RedisGet(cache, cacheKeyUser(call[p].id), FALSE))

\* ------------------------------------------------------------ tokens at the router
\* a request has just been taken up by the router
Taken(p) == pc[p] = "idle" /\ pc'[p] # "idle"

\* the handler behind Auth ran: it called the service or answered itself
HandlerRan(p) == pc'[p] # "responded" \/ resp'[p].status # 401

Times == 0..((MaxTicks + 1) * HalfLife)

\* C15: the token of a successful Login for user u carries sub = u.ID and
\* exp = now + lifetime; Auth with the same secret accepts it at every time
\* before exp and puts u.ID in the context, rejects it with 401 at every time
\* after exp, and rejects it at any time under another secret; a request
\* that presents the held token is treated accordingly.
C15_TokenRoundTrip ==
  [][\A p \in AllProcs :
       /\ (pc[p] = "login_find" /\ pc'[p] = "done" /\ result'[p].err = ErrNone)
            => LET t == result'[p].token
                   u == Last(trace'[p]).user
               IN  /\ u \in store /\ u.Email = call[p].email
                   /\ t.sub = NumSub(u.ID)
                   /\ t.hasExp /\ t.exp = now + JWTExpires
                   /\ \A at \in Times :
                        /\ at < t.exp
                             => /\ Auth(Bearer(Jwt(t)), call[p].secret, at).next
                                /\ Auth(Bearer(Jwt(t)), call[p].secret, at).uid
                                     = [set |-> TRUE, val |-> u.ID]
                        /\ at > t.exp
                             => /\ ~Auth(Bearer(Jwt(t)), call[p].secret, at).next
                                /\ Auth(Bearer(Jwt(t)), call[p].secret, at).status = 401
                        /\ ~Auth(Bearer(Jwt(t)), OtherSecret, at).next
                        /\ Auth(Bearer(Jwt(t)), OtherSecret, at).status = 401
       /\ (/\ Taken(p) /\ req'[p].route \in ProtectedRoutes
           /\ held # NoToken /\ req'[p].hdr = Bearer(Jwt(held)))
            => /\ now < held.exp
                    => /\ HandlerRan(p)
                       /\ req'[p].uid = [set |-> TRUE, val |-> held.sub.num]
               /\ now > held.exp
                    => /\ ~HandlerRan(p)
                       /\ resp'[p].status = 401 /\ call'[p] = NoCall]_vars

C15_Witness ==
  \E p \in AllProcs :
    /\ pc[p] = "responded" /\ req[p].route \in ProtectedRoutes
    /\ held # NoToken /\ req[p].hdr = Bearer(Jwt(held))
    /\ now > held.exp
    /\ resp[p].status = 401 /\ resp[p].error = "invalid token"

C15_WitnessAccepted ==
  \E p \in AllProcs :
    /\ pc[p] = "responded" /\ req[p].route = "GET /users/:id"
    /\ held # NoToken /\ req[p].hdr = Bearer(Jwt(held))
    /\ now > held.iat /\ now < held.exp
    /\ req[p].uid = [set |-> TRUE, val |-> held.sub.num]
    /\ resp[p].status = 200

\* a header Auth has to let through at time `at`: "Bearer " followed by a
\* token signed (HS256) with the configured secret that has not expired
GoodHeader(h, at) ==
  /\ h.scheme = "Bearer "
  /\ h.raw.kind = "jwt"
  /\ h.raw.tok.alg = "HS256" /\ h.raw.tok.key = jwtSecret
  /\ (h.raw.tok.hasExp => at < h.raw.tok.exp)

\* the subject claim is absent or is a string that is no number
UnusableSubject(t) ==
  \/ t.sub.kind = "absent"
  \/ t.sub.kind = "string" /\ \A n \in Numerals : ToString(n) # t.sub.str

\* C16: a request to a protected route whose token is signed and unexpired
\* but has no usable subject gets no user id in its context and no call of
\* the service is made for it.
C16_NoSubjectIsUnauthenticated ==
  \A p \in AllProcs :
    (/\ req[p].route \in ProtectedRoutes
     /\ GoodHeader(req[p].hdr, now)
     /\ UnusableSubject(req[p].hdr.raw.tok))
    => /\ ~req[p].uid.set
       /\ call[p].op = "none"
       /\ pc[p] = "responded" => resp[p].status = 401

\* C17: behind Auth a handler runs only for a header GoodHeader describes;
\* every other request is answered 401 at once, without any call of the
\* service and with store and cache untouched.
C17_AuthGate ==
  [][\A p \in AllProcs :
       (Taken(p) /\ req'[p].route \in ProtectedRoutes)
       => IF GoodHeader(req'[p].hdr, now)
          THEN HandlerRan(p) /\ req'[p].ran
          ELSE /\ ~req'[p].ran /\ ~req'[p].uid.set
               /\ pc'[p] = "responded"
               /\ resp'[p].status = 401
               /\ resp'[p].error \in {"missing bearer token", "invalid token"}
               /\ call'[p] = NoCall
               /\ store' = store /\ cache' = cache /\ nextID' = nextID]_vars

C17_Witness ==
  \E p \in AllProcs :
    /\ pc[p] = "responded" /\ req[p].route = "DELETE /users/:id"
    /\ req[p].hdr.scheme = "Bearer " /\ req[p].hdr.raw.kind = "jwt"
    /\ req[p].hdr.raw.tok.key = OtherSecret
    /\ req[p].hdr.raw.tok.sub = NumSub(1)
    /\ RowsByID(store, 1) # {}
    /\ resp[p].status = 401

C17_WitnessRuns ==
  \E p \in AllProcs :
    /\ pc[p] = "del_db" /\ req[p].route = "DELETE /users/:id"
    /\ GoodHeader(req[p].hdr, now) /\ ~req[p].hdr.raw.tok.hasExp

\* C18: GET /me with a valid token whose subject is a stored user answers
\* 200 with that user's record.
C18_MeReturnsCurrentUser ==
  \A p \in AllProcs :
    (/\ pc[p] = "responded" /\ req[p].route = "GET /me"
     /\ GoodHeader(req[p].hdr, now)
     /\ req[p].uid.set /\ RowsByID(store, req[p].uid.val) # {})
    => /\ resp[p].status = 200
       /\ resp[p].user.kind = "user"
       /\ resp[p].user.id = req[p].uid.val

\* the user a token was issued to has no row any more, or a row whose email
\* or password is no longer the one of the login
GoneOrChanged(t) ==
  \/ RowsByID(store, t.sub.num) = {}
  \/ \E r \in RowsByID(store, t.sub.num) :
       r.Email # t.eml \/ r.Password # HashPassword(Pw1).hash

\* C19: whether a request presenting the held token passes Auth is decided
\* by the token and the clock alone (accepted iff now < exp), whatever the
\* store and the cache hold, also once the user has been deleted or has a
\* new email or password.
C19_AcceptanceIgnoresStore ==
  [][\A p \in AllProcs :
       (/\ Taken(p) /\ req'[p].route \in ProtectedRoutes
        /\ held # NoToken /\ req'[p].hdr = Bearer(Jwt(held)))
       => /\ HandlerRan(p) <=> now < held.exp
          /\ HandlerRan(p) <=> Auth(Bearer(Jwt(held)), jwtSecret, now).next
          /\ GoneOrChanged(held) => (req'[p].ran <=> now < held.exp)]_vars

C19_Witness ==
  \E p \in AllProcs :
    /\ pc[p] = "responded" /\ req[p].route \in ProtectedRoutes
    /\ held # NoToken /\ req[p].hdr = Bearer(Jwt(held))
    /\ RowsByID(store, held.sub.num) = {}
    /\ store # {}
    /\ req[p].ran /\ resp[p].status = 200

C19_WitnessChanged ==
  \E p \in AllProcs :
    /\ pc[p] = "responded" /\ req[p].route \in ProtectedRoutes
    /\ held # NoToken /\ req[p].hdr = Bearer(Jwt(held))
    /\ \E r \in RowsByID(store, held.sub.num) :
         r.Email # held.eml /\ r.Password # HashPassword(Pw1).hash
    /\ req[p].ran /\ resp[p].status = 200

\* C20: a request whose handler panics is answered 500 with the error
\* "internal error" and the panic does not leave the middleware; the
\* response can be read and the client can send further requests, each of
\* which gets a response of its own.
C20_RecoveryAnswers500 ==
  \A p \in AllProcs :
    /\ (pc[p] = "responded" /\ req[p].route = "GET /boom")
         => /\ resp[p] = Plain(500, "internal error")
            /\ ~resp[p].panicked
            /\ panics > 0
            /\ ENABLED HttpClose(p)
    /\ (pc[p] = "responded") => (~resp[p].panicked /\ resp[p].status # 0)
    /\ (panics > 0 /\ p \in procs /\ pc[p] = "idle") => ENABLED HttpLogin(p)

C20_Witness ==
  \E p \in AllProcs :
    /\ panics > 0
    /\ pc[p] = "responded" /\ req[p].route = "POST /auth/login"
    /\ resp[p].status = 200 /\ resp[p].token # NoToken

\* ------------------------------------------------------------ NormalizeName
\* the text without its leading and trailing whitespace
RefTrim(s) ==
  LET keep == { i \in 1..Len(s) : s[i] \notin {" ", "\t", "\n"} }
  IN  IF keep = {} THEN <<>>
      ELSE SubSeq(s, CHOOSE i \in keep : \A j \in keep : i <= j,
                     CHOOSE i \in keep : \A j \in keep : i >= j)

\* bytes of the first character of a non-empty valid text
FirstCharLen(t) == IF t[1] \in Ascii THEN 1 ELSE 2

\* the upper-case form of one character
UpperOfChar(c) ==
  CASE c = <<"a">> -> <<"A">>
    [] c = <<"b">> -> <<"B">>
    [] c = <<"h">> -> <<"H">>
    [] c = <<"x">> -> <<"X">>
    [] c = <<"C3", "A9">> -> <<"C3", "89">>
    [] OTHER -> c

RefNormalize(s) ==
  LET t == RefTrim(s)
  IN  IF t = <<>> THEN <<>>
      ELSE UpperOfChar(SubSeq(t, 1, FirstCharLen(t)))
             \o SubSeq(t, FirstCharLen(t) + 1, Len(t))

\* C21: NormalizeName(text) is the trimmed text with its first character
\* upper-cased and the rest unchanged, and the empty text when nothing is
\* left after trimming.
C21_NormalizeMatchesReference ==
  (pure.fn = "NormalizeName" /\ pure.done) => pure.out = RefNormalize(pure.in)

\* C21, on texts whose first character after trimming is ASCII
C21_AsciiMatchesReference ==
  (/\ pure.fn = "NormalizeName" /\ pure.done
   /\ RefTrim(pure.in) # <<>> => RefTrim(pure.in)[1] \in Ascii)
  => pure.out = RefNormalize(pure.in)

\* ------------------------------------------------------------ HashPassword, CheckPassword
Checked == pure.fn = "HashPassword" /\ pure.stage = "checked"

\* C22: when HashPassword(p) succeeds, CheckPassword(HashPassword(p), q) is
\* true for q = p and false for every other q.
C22_HashCheckRoundTrip == Checked => (pure.ok <=> pure.q = pure.p)

\* C22, for q = p and for passwords p shorter than the bytes bcrypt reads
C22_ShortPasswordsRoundTrip ==
  Checked => /\ pure.q = pure.p => pure.ok
             /\ (Len(pure.p) < MaxPasswordBytes /\ pure.q # pure.p) => ~pure.ok

\* ------------------------------------------------------------ status codes
\* the handler of p writes its response for what the service returned
Responds(p) == pc[p] = "done" /\ pc'[p] = "responded"

\* every error text a service call can return
ErrorTexts ==
  {ErrEmailExists, ErrInvalidCreds, ErrRecordNotFound, ErrDB, ErrDuplicate, ErrTooLong}

\* C23: Register answers 201 with the created user when the service
\* succeeds; Login answers 401 and GetUser 404 whenever the service returns
\* an error, whichever error it is.
C23_StatusCodes ==
  [][\A p \in AllProcs :
       Responds(p) =>
         /\ (req[p].route = "POST /auth/register" /\ result[p].err = ErrNone)
              => /\ resp'[p].status = 201
                 /\ resp'[p].user = Marshal(result[p].user)
                 /\ resp'[p].user.id # 0
         /\ (req[p].route = "POST /auth/login" /\ result[p].err # ErrNone)
              => resp'[p].status = 401
         /\ (req[p].route = "GET /users/:id" /\ result[p].err # ErrNone)
              => resp'[p].status = 404
         /\ \A e \in ErrorTexts :
              /\ HandlerReply("POST /auth/login", [result[p] EXCEPT !.err = e]).status = 401
              /\ HandlerReply("GET /users/:id", [result[p] EXCEPT !.err = e]).status = 404]_vars

C23_Witness ==
  \E p \in AllProcs :
    /\ pc[p] = "responded" /\ req[p].route = "POST /auth/register"
    /\ resp[p].status = 201
    /\ \E r \in store : r.ID = 2 /\ Marshal(r) = resp[p].user

C23_WitnessLogin ==
  \E p \in AllProcs :
    /\ pc[p] = "responded" /\ req[p].route = "POST /auth/login"
    /\ resp[p].status = 401 /\ store # {}

C23_WitnessGetUser ==
  \E p \in AllProcs :
    /\ pc[p] = "responded" /\ req[p].route = "GET /users/:id"
    /\ resp[p].status = 404 /\ Cardinality(store) = MaxId

\* ------------------------------------------------------------ reads after a write
NotFound == [found |-> FALSE, user |-> ZeroUser]

\* what the store holds for id, as a reader sees it (no password hash)
Current(id) ==
  IF RowsByID(store, id) = {} THEN NotFound
  ELSE [found |-> TRUE,
        user |-> [(CHOOSE r \in RowsByID(store, id) : TRUE) EXCEPT !.Password = NoHash]]

\* what a GetByID(id) returns that starts now and runs without interruption
\* while no cache round trip fails
ReadNow(id) ==
  LET g == RedisGet(cache, cacheKeyUser(id), FALSE)
  IN  IF CacheHit(g) THEN [found |-> TRUE, user |-> Unmarshal(g.val).user]
      ELSE Current(id)

\* q has returned from a successful write of id, cache refresh included
Written(q, id) ==
  /\ Done(q) /\ call[q].op \in {"UpdateUser", "DeleteUser"}
  /\ call[q].id = id /\ result[q].err = ErrNone

\* C24: once an UpdateUser(id) or DeleteUser(id) has returned and no other
\* call is in progress, a GetByID(id) that starts now returns what the store
\* holds (the updated user, or not found), never an older value.
C24_ReadAfterRefreshIsFresh ==
  \A q \in AllProcs : \A id \in Ids :
    (Written(q, id) /\ \A p \in AllProcs \ {q} : pc[p] = "idle")
    => ReadNow(id) = Current(id)

\* C24, the case the claim names: a GetByID that overlapped an UpdateUser
\* has put the row it read before the update into the cache after the
\* update's refresh
C24_StaleAfterOverlappingRead ==
  \E q \in AllProcs : \E p \in AllProcs \ {q} : \E id \in Ids :
    /\ Written(q, id) /\ call[q].op = "UpdateUser"
    /\ Done(p) /\ IsGet(p) /\ call[p].id = id
    /\ Last(trace[p]).op = "Set" /\ Last(trace[p]).err = ErrNone
    /\ ReadNow(id).found /\ Current(id).found
    /\ ReadNow(id) # Current(id)

\* ------------------------------------------------------------ concurrent updates
\* C28: when an UpdateUser(id) that supplies only a name and an
\* UpdateUser(id) that supplies only an email have both returned success,
\* the stored record carries the new name and the new email.
C28_BothUpdatesTakeEffect ==
  \A p \in AllProcs : \A q \in AllProcs \ {p} :
    (/\ Done(p) /\ call[p].op = "UpdateUser" /\ result[p].err = ErrNone
     /\ Done(q) /\ call[q].op = "UpdateUser" /\ result[q].err = ErrNone
     /\ call[p].id = call[q].id
     /\ call[p].hasName /\ ~call[p].hasEmail /\ ~call[p].hasPassword
     /\ call[q].hasEmail /\ ~call[q].hasName /\ ~call[q].hasPassword)
    => \E r \in RowsByID(store, call[p].id) :
         /\ r.Name = NormalizeName(call[p].name)
         /\ r.Email = call[q].email

\* ------------------------------------------------------------ read hits
\* p made one more round trip, a successful SET of key k
Wrote(p, k) ==
  /\ Len(trace'[p]) = Len(trace[p]) + 1
  /\ Last(trace'[p]).op = "Set" /\ Last(trace'[p]).key = k
  /\ Last(trace'[p]).err = ErrNone

\* C25: a GetByID served from the cache makes one round trip, the GET, and
\* changes neither the store nor the cache, the minutes its entry has left
\* included; an entry gets its full time-to-live only from a write, and
\* loses a minute with every minute that passes until it is gone.
C25_HitLeavesEntryAlone ==
  [][/\ \A p \in AllProcs :
          (pc[p] = "get_cache" /\ pc'[p] = "done")
          => /\ cache' = cache /\ store' = store /\ nextID' = nextID
             /\ Len(trace'[p]) = 1 /\ trace'[p][1].op = "Get"
             /\ result'[p].err = ErrNone
     /\ \A k \in Keys :
          /\ (cache'[k].present /\ (~cache[k].present \/ cache'[k].ttl > cache[k].ttl))
               => /\ cache'[k].ttl = userCacheTTL
                  /\ \E p \in AllProcs : Wrote(p, k)
          /\ (cache[k].present /\ trace' = trace /\ cache' # cache)
               => IF cache[k].ttl > 1
                  THEN cache'[k] = [cache[k] EXCEPT !.ttl = cache[k].ttl - 1]
                  ELSE ~cache'[k].present]_vars

C25_Witness ==
  \E p \in AllProcs :
    /\ Done(p) /\ IsGet(p) /\ Len(trace[p]) = 1
    /\ result[p].err = ErrNone /\ result[p].user.ID = call[p].id
    /\ cache[cacheKeyUser(call[p].id)].present
    /\ cache[cacheKeyUser(call[p].id)].ttl = 1

\* ------------------------------------------------------------ cache and store agree
\* no call is in progress
Quiet == \A p \in procs : pc[p] \in {"idle", "done"}

\* C26: between calls that do not overlap and whose cache round trips
\* succeed, every entry at user:<id> is the JSON of the row the store holds
\* for id, and an id without a row has no entry.
C26_CacheAgreesWithStore ==
  Quiet =>
    \A id \in Ids :
      cache[cacheKeyUser(id)].present
      => /\ RowsByID(store, id) # {}
         /\ \A r \in RowsByID(store, id) : cache[cacheKeyUser(id)].val = Marshal(r)

C26_Witness ==
  \E p \in AllProcs :
    /\ Done(p) /\ call[p].op = "UpdateUser" /\ result[p].err = ErrNone
    /\ call[p].hasName /\ call[p].hasEmail
    /\ cache[cacheKeyUser(call[p].id)].present
    /\ \E r \in RowsByID(store, call[p].id) :
         /\ r.Email = call[p].email /\ r.Name = NormalizeName(call[p].name)
         /\ cache[cacheKeyUser(call[p].id)].val = Marshal(r)
    /\ \E id \in Ids : RowsByID(store, id) = {} /\ nextID > id

\* ------------------------------------------------------------ keys and snapshots
\* C27: under any interleaving of two callers the entry at user:<n> is the
\* snapshot of a user whose identifier is n, and every SET the service makes
\* at user:<n> carries such a snapshot.
C27_KeyMatchesSnapshot ==
  /\ \A n \in Ids :
       cache[cacheKeyUser(n)].present
       => /\ cache[cacheKeyUser(n)].val.kind = "user"
          /\ cache[cacheKeyUser(n)].val.id = n
  /\ \A p \in AllProcs : \A i \in 1..Len(trace[p]) :
       trace[p][i].op = "Set"
       => /\ trace[p][i].val.kind = "user"
          /\ trace[p][i].key = cacheKeyUser(trace[p][i].val.id)

C27_Witness ==
  \E p \in AllProcs : \E q \in AllProcs \ {p} :
    /\ Done(p) /\ Done(q)
    /\ call[p].op = "UpdateUser" /\ IsGet(q)
    /\ Last(trace[p]).op = "Set" /\ Last(trace[q]).op = "Set"
    /\ Last(trace[p]).key # Last(trace[q]).key
    /\ \A n \in Ids : cache[cacheKeyUser(n)].present

\* ------------------------------------------------------------ the offset
\* C29: the offset ListUsers hands to the store is never negative and is
\* the integer (max(page, 1) - 1) * limit' itself, not that product reduced
\* to the width of the machine integer.
C29_OffsetExact ==
  \A p \in AllProcs :
    (Done(p) /\ call[p].op = "ListUsers")
    => \A i \in 1..Len(trace[p]) :
         trace[p][i].op = "List"
         => /\ trace[p][i].offset >= 0
            /\ trace[p][i].offset = (PageOf(p) - 1) * LimitOf(p)

\* C29, for the pages whose product fits the machine integer
C29_OffsetExactWhenItFits ==
  \A p \in AllProcs :
    (/\ Done(p) /\ call[p].op = "ListUsers"
     /\ (PageOf(p) - 1) * LimitOf(p) <= MaxInt)
    => \A i \in 1..Len(trace[p]) :
         trace[p][i].op = "List"
         => /\ trace[p][i].offset >= 0
            /\ trace[p][i].offset = (PageOf(p) - 1) * LimitOf(p)

\* ------------------------------------------------------------ the log list
Completed == rlog.pcl = "done"

Least(a, b) == IF a <= b THEN a ELSE b

====
